---- MODULE Spec2Model ----
(***************************************************************************)
(* State-machine model of onekey-rag-service.                              *)
(*                                                                         *)
(* Part 1: the durable job queue (the jobs table of models.py), the worker *)
(* loop of worker.py (stale reclaim, claim, execute, completion) and the   *)
(* administrative handlers of api/admin.py (trigger, requeue, cancel).     *)
(* Part 2: the KB allocator of rag/kb_allocation.py.                       *)
(*                                                                         *)
(* Every statement of the worker that touches the database is one step.    *)
(* The claim transaction of main() is split at its two SELECT ... FOR      *)
(* UPDATE SKIP LOCKED statements and its COMMIT, so that row locks are     *)
(* visible to the other workers.  The sessions of _process_job and the     *)
(* administrative handlers are single short transactions; each is one      *)
(* step, taken when the row it updates is not locked by a claim            *)
(* transaction (its UPDATE would wait for that lock).                      *)
(***************************************************************************)
EXTENDS Integers, Sequences, FiniteSets, TLC

VARIABLES
    status,       \* Job.status, "absent" before the row is inserted
    started_at,   \* Job.started_at, kept relative to the clock (0 is "now", -n is
                  \* n ticks ago; everything older than MaxAge reads as -MaxAge)
    finished_at,  \* Job.finished_at: None when NULL, else Stamped (the value is
                  \* never read by the program)
    error,        \* Job.error, a sequence of text pieces (<<>> is "")
    attempts,     \* Job.progress["_meta"]["attempts"], 0 when the key is missing
    pc,           \* position of each worker in main()
    job_id,       \* main(): job_id of each worker (None when it holds no job)
    err,          \* _process_job: err of each worker
    txStale,      \* rows locked by the stale SELECT of a worker's open transaction
    txJob,        \* row locked by the claim SELECT of a worker's open transaction
    starts,       \* history: handler starts of each job since it was last requeued
                  \* by an administrator
    bindings,     \* allocate_top_k: the bindings argument
    total_k,      \* allocate_top_k: the total_k argument
    allocation,   \* allocate_top_k: the returned list (NotCalled before the call)
    vec,          \* hybrid_search: the rows of similarity_search
    lex,          \* hybrid_search: the rows of bm25_search
    search_k,     \* hybrid_search: the k argument
    hits,         \* hybrid_search: the returned list (NotSearched before the call)
    kb_allocations, \* prepare_rag: the KbAllocation list passed in
    rag_top_k,    \* settings.rag_top_k
    groups,       \* prepare_rag: groups, the rows retrieved for each allocation
    retrieved,    \* prepare_rag: retrieved (NotRetrieved before the retrieval)
    text,           \* _sanitize_inline_citations: the generated text, a list of characters
    max_ref,        \* the number of sources
    cleaned,        \* what _sanitize_inline_citations returned
    rpc,            \* chat completions: where each request is in its handler
    req_stream,     \* req.stream of each request
    frames,         \* the SSE frames each streaming request has sent
    chat_calls,     \* the chat-model calls each request has started
    in_call,        \* whether a chat-model call of the request is in flight
    answer,         \* the text each request has answered with
    prepared,       \* what prepare_rag gave each request
    n_retrieved,    \* how many chunks were retrieved (-1: not yet)
    n_sources,      \* the length of the source list of the answer
    sem_value,      \* app.state.chat_semaphore: the free slots
    chat,           \* whether a chat model is configured
    compaction_enabled,\* query_rewrite_enabled or memory_summary_enabled
    max_concurrent, \* settings.max_concurrent_chat_requests
    pages,          \* the committed rows of table pages, by url
    chunks,         \* the committed rows of table chunks
    next_chunk_id,  \* the next value of the sequence of chunks.id
    crawl_pc,       \* crawl_and_store_pages: idle or running
    crawl_mode,     \* its mode
    max_pages,      \* its page budget
    frontier,       \* its frontier q
    crawl_seen,     \* seen: the urls it has discovered
    crawl_visited,  \* visited: the urls it has fetched
    counts,         \* its counters discovered, fetched, succeeded, failed
    crawl_writes,   \* the page rows written in its session, not yet committed
    crawl_quota,     \* the page budgets handed to the crawl runs started, summed
    index_pc,       \* index_pages_to_chunks: idle or running
    index_mode,     \* its mode
    loaded,         \* the Page objects it selected and has not handled yet
    rebuilding,     \* the page whose chunks it deleted and has not inserted yet (0: none)
    tx_deleted,     \* the pages whose chunk rows it deleted in its session
    tx_rows,        \* the chunk rows it added in its session
    tx_indexed,     \* the indexed_content_hash it set in its session
    index_runs,     \* the number of index runs started
    index_result,   \* how the last index run ended
    view,           \* the chunk rows a reader got for a page
    cache,          \* CachedEmbeddingsProvider._cache: the entries, least recently used first
    cache_clock,    \* time.time()
    max_size,       \* its max_size
    ttl_s,          \* its ttl_s
    embed_pc,       \* embed_query, per caller: idle or calling the inner provider
    embed_key,      \* the key of the caller's text
    embed_now,      \* the caller's now
    embed_ret,      \* the caller's last call: its number and the vector returned (0: none)
    provider_calls, \* the calls of inner.embed_query so far
    lookups,        \* the calls of embed_query so far
    last_used,      \* per key, when it was last used (0: never)
    use_count,      \* the uses of cache entries so far
    ctx_chunks,     \* _build_context: the ranked chunks
    ctx_max_chars,  \* its max_chars
    context,        \* the context block it returned
    lazy_inner,     \* LazyEmbeddingsProvider._inner (None, or the instance the factory made)
    lazy_lock,      \* its _lock: the caller that holds it (None when free)
    lazy_pc,        \* _get_inner, per caller: where the caller is
    lazy_got,       \* the provider the caller's last call used (None: no call returned)
    factory_calls,  \* the calls of _factory so far
    lazy_calls      \* the calls of _get_inner so far

jobvars == <<status, started_at, finished_at, error, attempts>>
workervars == <<pc, job_id, err, txStale, txJob>>
queuevars == <<status, started_at, finished_at, error, attempts, pc, job_id, err,
               txStale, txJob, starts>>
allocvars == <<bindings, total_k, allocation>>
searchvars == <<vec, lex, search_k, hits>>
mergevars == <<kb_allocations, rag_top_k, groups, retrieved>>
citevars == <<text, max_ref, cleaned>>
chatvars == <<rpc, req_stream, frames, chat_calls, in_call, answer, prepared,
              n_retrieved, n_sources, sem_value, chat, compaction_enabled,
              max_concurrent>>
ingestvars == <<pages, chunks, next_chunk_id, crawl_pc, crawl_mode, max_pages, frontier,
                crawl_seen, crawl_visited, counts, crawl_writes, crawl_quota, index_pc,
                index_mode, loaded, rebuilding, tx_deleted, tx_rows, tx_indexed,
                index_runs, index_result, view>>
cachevars == <<cache, cache_clock, max_size, ttl_s, embed_pc, embed_key, embed_now,
               embed_ret, provider_calls, lookups, last_used, use_count>>
contextvars == <<ctx_chunks, ctx_max_chars, context>>
lazyvars == <<lazy_inner, lazy_lock, lazy_pc, lazy_got, factory_calls, lazy_calls>>
\* everything but the job queue
notqueue == <<allocvars, searchvars, mergevars, citevars, chatvars, ingestvars, cachevars, contextvars, lazyvars>>
\* everything but the allocator
notalloc == <<queuevars, searchvars, mergevars, citevars, chatvars, ingestvars, cachevars, contextvars, lazyvars>>
\* everything but the hybrid search
notsearch == <<queuevars, allocvars, mergevars, citevars, chatvars, ingestvars, cachevars, contextvars, lazyvars>>
\* everything but the multi-KB retrieval
notmerge == <<queuevars, allocvars, searchvars, citevars, chatvars, ingestvars, cachevars, contextvars, lazyvars>>
\* everything but the citation sanitization
notcite == <<allocvars, searchvars, mergevars, queuevars, chatvars, ingestvars, cachevars, contextvars, lazyvars>>
\* everything but the chat requests
notchat == <<allocvars, searchvars, mergevars, citevars, queuevars, ingestvars, cachevars, contextvars, lazyvars>>
\* everything but the crawl and index runs
notingest == <<allocvars, searchvars, mergevars, citevars, chatvars, queuevars, cachevars, contextvars, lazyvars>>
\* everything but the query-embedding cache
notcache == <<allocvars, searchvars, mergevars, citevars, chatvars, ingestvars, queuevars, contextvars, lazyvars>>
\* everything but the context block
notcontext == <<allocvars, searchvars, mergevars, citevars, chatvars, ingestvars, cachevars, queuevars, lazyvars>>
\* everything but the lazy embeddings provider
notlazy == <<allocvars, searchvars, mergevars, citevars, chatvars, ingestvars, cachevars, queuevars, contextvars>>
vars == <<status, started_at, finished_at, error, attempts, pc, job_id, err,
          txStale, txJob, starts, bindings, total_k, allocation,
          vec, lex, search_k, hits,
          kb_allocations, rag_top_k, groups, retrieved,
          text, max_ref, cleaned,
          rpc, req_stream, frames, chat_calls, in_call, answer, prepared, n_retrieved, n_sources, sem_value, chat, compaction_enabled, max_concurrent,
          pages, chunks, next_chunk_id, crawl_pc, crawl_mode, max_pages, frontier,
          crawl_seen, crawl_visited, counts, crawl_writes, crawl_quota, index_pc, index_mode,
          loaded, rebuilding, tx_deleted, tx_rows, tx_indexed, index_runs,
          index_result, view,
          cache, cache_clock, max_size, ttl_s, embed_pc, embed_key, embed_now,
          embed_ret, provider_calls, lookups, last_used, use_count,
          ctx_chunks, ctx_max_chars, context,
          lazy_inner, lazy_lock, lazy_pc, lazy_got, factory_calls, lazy_calls>>

(***************************************************************************)
(* Bounds and configuration.                                               *)
(***************************************************************************)
NumJobs == 2
\* timestamps older than this many ticks are not told apart
MaxAge == 2
\* handler starts of one job that are followed
MaxStarts == 3
\* WORKER_STALE_AFTER_S in clock ticks
stale_after_s == 1
\* WORKER_MAX_ATTEMPTS
max_attempts == 2
\* .limit(10) of the stale SELECT
StaleLimit == 10

\* _utcnow(): timestamps are relative to the clock
now == 0

Jobs == 1..NumJobs
Workers == {"w1", "w2"}
None == 0
Stamped == 1
NoErr == "None"
\* str(e) of the exceptions a handler may raise; "" is an exception without text
ErrTexts == {"", "E1"}
StaleNote == "requeued-stale"
Terminal == {"succeeded", "failed", "cancelled"}

(***************************************************************************)
(* Row locks.                                                              *)
(***************************************************************************)
LockedBy(w) == txStale[w] \cup (IF txJob[w] = None THEN {} ELSE {txJob[w]})

LockedByOther(w, j) == \E o \in Workers \ {w} : j \in LockedBy(o)

Locked(j) == \E o \in Workers : j \in LockedBy(o)

\* a SELECT ... FOR UPDATE without SKIP LOCKED that did not wait either
NoSkip(w, rows) == rows

\* with_for_update(skip_locked=True): rows locked by another transaction are skipped
SkipLocked(w, rows) == {j \in rows : ~LockedByOther(w, j)}

\* LIMIT n without the ORDER BY: any n of the rows
AnyOrder(rows, n) ==
    {S \in SUBSET rows :
        Cardinality(S) = (IF Cardinality(rows) < n THEN Cardinality(rows) ELSE n)}

\* ORDER BY started_at ASC LIMIT n over a set of rows (ties in any order)
OldestFirst(rows, n) ==
    {S \in SUBSET rows :
        /\ Cardinality(S) = (IF Cardinality(rows) < n THEN Cardinality(rows) ELSE n)
        /\ \A a \in S, b \in rows \ S : started_at[a] <= started_at[b]}

\* a stale test that ignores the age of the run
IsStaleNoAge(j) == status[j] = "running"

\* a stale test that never fires
IsStaleNever(j) == FALSE

\* WHERE status = 'running' AND started_at < threshold
IsStale(j) == status[j] = "running" /\ started_at[j] < now - stale_after_s

StaleRows(w) == SkipLocked(w, {j \in DOMAIN status : IsStale(j)})

\* WHERE status = 'queued'
QueuedRows(w) == SkipLocked(w, {j \in DOMAIN status : status[j] = "queued"})

(***************************************************************************)
(* worker.py main(): the claim transaction.                                *)
(***************************************************************************)
\* _requeue_stale_jobs: the SELECT; the rows stay locked, the writes are pending
RequeueStaleSelect(w) ==
    /\ pc[w] = "poll"
    /\ \E S \in (IF stale_after_s <= 0 THEN {{}} ELSE OldestFirst(StaleRows(w), StaleLimit)) :
         txStale' = [txStale EXCEPT ![w] = S]
    /\ pc' = [pc EXCEPT ![w] = "tx_stale"]
    /\ UNCHANGED <<jobvars, job_id, err, txJob, starts>>
    /\ UNCHANGED notqueue

\* _claim_next_job: the SELECT (autoflush is off: it reads the committed rows)
ClaimSelect(w) ==
    /\ pc[w] = "tx_stale"
    /\ IF QueuedRows(w) = {}
       THEN txJob' = [txJob EXCEPT ![w] = None]
       ELSE \E S \in OldestFirst(QueuedRows(w), 1) : \E j \in S :
              txJob' = [txJob EXCEPT ![w] = j]
    /\ pc' = [pc EXCEPT ![w] = "tx_claim"]
    /\ UNCHANGED <<jobvars, job_id, err, txStale, starts>>
    /\ UNCHANGED notqueue

\* the COMMIT of session.begin(): pending writes of both functions, locks released
ClaimCommit(w) ==
    /\ pc[w] = "tx_claim"
    /\ status' = [j \in DOMAIN status |->
                    IF j = txJob[w] THEN "running"
                    ELSE IF j \in txStale[w] THEN "queued"
                    ELSE status[j]]
    /\ started_at' = [j \in DOMAIN started_at |->
                        IF j = txJob[w] THEN now ELSE started_at[j]]
    /\ error' = [j \in DOMAIN error |->
                    IF j = txJob[w] THEN <<>>
                    ELSE IF j \in txStale[w] THEN Append(error[j], StaleNote)
                    ELSE error[j]]
    /\ job_id' = [job_id EXCEPT ![w] = txJob[w]]
    /\ pc' = [pc EXCEPT ![w] = IF txJob[w] = None THEN "sleep" ELSE "claimed"]
    /\ txStale' = [txStale EXCEPT ![w] = {}]
    /\ txJob' = [txJob EXCEPT ![w] = None]
    /\ UNCHANGED <<finished_at, attempts, err, starts>>
    /\ UNCHANGED notqueue

\* asyncio.sleep(poll_interval_s) ends
Wake(w) ==
    /\ pc[w] = "sleep"
    /\ pc' = [pc EXCEPT ![w] = "poll"]
    /\ UNCHANGED <<jobvars, job_id, err, txStale, txJob, starts>>
    /\ UNCHANGED notqueue

(***************************************************************************)
(* worker.py _process_job.                                                 *)
(***************************************************************************)
\* first session: the status check and the attempt stamp
ProcessBegin(w) ==
    /\ pc[w] = "claimed"
    /\ ~Locked(job_id[w])
    /\ status[job_id[w]] = "running" => starts[job_id[w]] < MaxStarts
    /\ LET j == job_id[w] IN
       IF status[j] # "running"
       THEN /\ pc' = [pc EXCEPT ![w] = "poll"]
            /\ job_id' = [job_id EXCEPT ![w] = None]
            /\ UNCHANGED <<attempts, starts>>
       ELSE /\ attempts' = [attempts EXCEPT ![j] = attempts[j] + 1]
            /\ starts' = [starts EXCEPT ![j] = @ + 1]
            /\ pc' = [pc EXCEPT ![w] = "exec"]
            /\ UNCHANGED job_id
    /\ UNCHANGED <<status, started_at, finished_at, error, err, txStale, txJob>>
    /\ UNCHANGED notqueue

\* second session: the handler returns a progress dict
HandlerReturn(w) ==
    /\ pc[w] = "exec"
    /\ err' = [err EXCEPT ![w] = NoErr]
    /\ pc' = [pc EXCEPT ![w] = "finish"]
    /\ UNCHANGED <<jobvars, job_id, txStale, txJob, starts>>
    /\ UNCHANGED notqueue

\* second session: the handler raises, err = str(e)
HandlerRaise(w) ==
    /\ pc[w] = "exec"
    /\ \E e \in ErrTexts : err' = [err EXCEPT ![w] = e]
    /\ pc' = [pc EXCEPT ![w] = "finish"]
    /\ UNCHANGED <<jobvars, job_id, txStale, txJob, starts>>
    /\ UNCHANGED notqueue

\* `if err:` of the third session: None and "" are both falsy
ErrTruthy(e) == e # NoErr /\ e # ""

\* int(meta.get("attempts") or 1)
AttemptsOr1(j) == IF attempts[j] = 0 THEN 1 ELSE attempts[j]

\* max_attempts > 0 and attempts < max_attempts
RetryAllowed(j) == max_attempts > 0 /\ AttemptsOr1(j) < max_attempts

\* third session: the final status
ProcessFinish(w) ==
    /\ pc[w] = "finish"
    /\ ~Locked(job_id[w])
    /\ LET j == job_id[w] IN
       IF ErrTruthy(err[w])
       THEN /\ error' = [error EXCEPT ![j] = <<err[w]>>]
            /\ IF RetryAllowed(j)
               THEN /\ status' = [status EXCEPT ![j] = "queued"]
                    /\ UNCHANGED finished_at
               ELSE /\ status' = [status EXCEPT ![j] = "failed"]
                    /\ finished_at' = [finished_at EXCEPT ![j] = Stamped]
            /\ UNCHANGED attempts
       ELSE /\ status' = [status EXCEPT ![j] = "succeeded"]
            /\ finished_at' = [finished_at EXCEPT ![j] = Stamped]
            /\ attempts' = [attempts EXCEPT ![j] = AttemptsOr1(j)]
            /\ UNCHANGED error
    /\ pc' = [pc EXCEPT ![w] = "poll"]
    /\ job_id' = [job_id EXCEPT ![w] = None]
    /\ err' = [err EXCEPT ![w] = NoErr]
    /\ UNCHANGED <<started_at, txStale, txJob, starts>>
    /\ UNCHANGED notqueue

\* the worker process dies: its open transaction is rolled back, its memory is lost
Crash(w) ==
    /\ pc[w] # "crashed"
    /\ pc' = [pc EXCEPT ![w] = "crashed"]
    /\ txStale' = [txStale EXCEPT ![w] = {}]
    /\ txJob' = [txJob EXCEPT ![w] = None]
    /\ job_id' = [job_id EXCEPT ![w] = None]
    /\ err' = [err EXCEPT ![w] = NoErr]
    /\ UNCHANGED <<jobvars, starts>>
    /\ UNCHANGED notqueue

\* a new worker process is started in its place
Restart(w) ==
    /\ pc[w] = "crashed"
    /\ pc' = [pc EXCEPT ![w] = "poll"]
    /\ UNCHANGED <<jobvars, job_id, err, txStale, txJob, starts>>
    /\ UNCHANGED notqueue

(***************************************************************************)
(* api/admin.py: the job handlers.                                         *)
(***************************************************************************)
\* trigger_crawl_job / trigger_index_job with jobs_backend = "worker"
TriggerJob(j) ==
    /\ status[j] = "absent"
    /\ \A i \in DOMAIN status : i < j => status[i] # "absent"
    /\ status' = [status EXCEPT ![j] = "queued"]
    /\ started_at' = [started_at EXCEPT ![j] = now]
    /\ UNCHANGED <<finished_at, error, attempts, workervars, starts>>
    /\ UNCHANGED notqueue

RequeueJob(j) ==
    /\ ~Locked(j)
    /\ IF status[j] = "absent"
       THEN UNCHANGED <<jobvars, starts>>
       ELSE /\ status' = [status EXCEPT ![j] = "queued"]
            /\ error' = [error EXCEPT ![j] = <<>>]
            /\ attempts' = [attempts EXCEPT ![j] = 0]
            /\ started_at' = [started_at EXCEPT ![j] = now]
            /\ finished_at' = [finished_at EXCEPT ![j] = None]
            /\ starts' = [starts EXCEPT ![j] = 0]
    /\ UNCHANGED workervars
    /\ UNCHANGED notqueue

CancelJob(j) ==
    /\ ~Locked(j)
    /\ IF status[j] = "absent"
       THEN UNCHANGED jobvars
       ELSE IF status[j] # "queued"
       THEN UNCHANGED jobvars
       ELSE /\ status' = [status EXCEPT ![j] = "cancelled"]
            /\ finished_at' = [finished_at EXCEPT ![j] = Stamped]
            /\ UNCHANGED <<started_at, error, attempts>>
    /\ UNCHANGED <<workervars, starts>>
    /\ UNCHANGED notqueue

\* one tick older, as seen from the clock
Older(t) == IF t - 1 < 0 - MaxAge THEN 0 - MaxAge ELSE t - 1

\* time passes: every stored timestamp is one tick further in the past
Tick ==
    /\ started_at' = [j \in DOMAIN started_at |-> Older(started_at[j])]
    /\ started_at' # started_at
    /\ UNCHANGED <<status, finished_at, error, attempts, workervars, starts>>
    /\ UNCHANGED notqueue

(***************************************************************************)
(* The job queue with two workers.                                         *)
(***************************************************************************)
\* the allocator is not in use
AllocIdle ==
    /\ bindings = <<>>
    /\ total_k = 0
    /\ allocation = <<>>

\* the lazy embeddings provider is not in use
LazyIdle ==
    /\ lazy_inner = 0
    /\ lazy_lock = 0
    /\ lazy_pc = <<>>
    /\ lazy_got = <<>>
    /\ factory_calls = 0
    /\ lazy_calls = 0

\* no context block is built
ContextIdle ==
    /\ ctx_chunks = <<>>
    /\ ctx_max_chars = 0
    /\ context = <<>>

\* no embed_query call is made
CacheIdle ==
    /\ cache = <<>>
    /\ cache_clock = 0
    /\ max_size = 0
    /\ ttl_s = 0
    /\ embed_pc = <<>>
    /\ embed_key = <<>>
    /\ embed_now = <<>>
    /\ embed_ret = <<>>
    /\ provider_calls = 0
    /\ lookups = 0
    /\ last_used = <<>>
    /\ use_count = 0

\* no crawl or index run and an empty store
IngestIdle ==
    /\ pages = <<>>
    /\ chunks = {}
    /\ next_chunk_id = 0
    /\ crawl_pc = "idle"
    /\ crawl_mode = ""
    /\ max_pages = 0
    /\ frontier = <<>>
    /\ crawl_seen = {}
    /\ crawl_visited = {}
    /\ counts = <<>>
    /\ crawl_writes = <<>>
    /\ crawl_quota = 0
    /\ index_pc = "idle"
    /\ index_mode = ""
    /\ loaded = <<>>
    /\ rebuilding = 0
    /\ tx_deleted = {}
    /\ tx_rows = {}
    /\ tx_indexed = <<>>
    /\ index_runs = 0
    /\ index_result = <<>>
    /\ view = <<>>

\* no chat request is handled
ChatIdle ==
    /\ rpc = <<>>
    /\ req_stream = <<>>
    /\ frames = <<>>
    /\ chat_calls = <<>>
    /\ in_call = <<>>
    /\ answer = <<>>
    /\ prepared = <<>>
    /\ n_retrieved = <<>>
    /\ n_sources = <<>>
    /\ sem_value = 0
    /\ chat = FALSE
    /\ compaction_enabled = FALSE
    /\ max_concurrent = 0

\* the citation sanitization is not in use
CiteIdle ==
    /\ text = <<>>
    /\ max_ref = 0
    /\ cleaned = <<>>

\* the multi-KB retrieval is not in use
MergeIdle ==
    /\ kb_allocations = <<>>
    /\ rag_top_k = 0
    /\ groups = <<>>
    /\ retrieved = <<>>

\* the hybrid search is not in use
SearchIdle ==
    /\ vec = <<>>
    /\ lex = <<>>
    /\ search_k = 0
    /\ hits = <<>>

InitWorkers ==
    /\ pc = [w \in Workers |-> "poll"]
    /\ job_id = [w \in Workers |-> None]
    /\ err = [w \in Workers |-> NoErr]
    /\ txStale = [w \in Workers |-> {}]
    /\ txJob = [w \in Workers |-> None]

\* the jobs table is empty, the workers are at the top of their loop
InitQueueIdle ==
    /\ status = [j \in Jobs |-> "absent"]
    /\ started_at = [j \in Jobs |-> 0]
    /\ finished_at = [j \in Jobs |-> None]
    /\ error = [j \in Jobs |-> <<>>]
    /\ attempts = [j \in Jobs |-> 0]
    /\ InitWorkers
    /\ starts = [j \in Jobs |-> 0]

Init ==
    /\ InitQueueIdle
    /\ AllocIdle
    /\ SearchIdle
    /\ ContextIdle
    /\ CacheIdle
    /\ LazyIdle
    /\ IngestIdle
    /\ ChatIdle
    /\ CiteIdle
    /\ MergeIdle

WorkerStep(w) ==
    \/ RequeueStaleSelect(w)
    \/ ClaimSelect(w)
    \/ ClaimCommit(w)
    \/ Wake(w)
    \/ ProcessBegin(w)
    \/ HandlerReturn(w)
    \/ HandlerRaise(w)
    \/ ProcessFinish(w)

Next ==
    \/ \E w \in Workers : WorkerStep(w)
    \/ \E w \in Workers : Crash(w)
    \/ \E w \in Workers : Restart(w)
    \/ \E j \in DOMAIN status : TriggerJob(j)
    \/ \E j \in DOMAIN status : RequeueJob(j)
    \/ \E j \in DOMAIN status : CancelJob(j)
    \/ Tick

Spec == Init /\ [][Next]_vars

(***************************************************************************)
(* The job queue without the administrative requeue.                       *)
(***************************************************************************)
NextNoRequeue ==
    \/ \E w \in Workers : WorkerStep(w)
    \/ \E w \in Workers : Crash(w)
    \/ \E w \in Workers : Restart(w)
    \/ \E j \in DOMAIN status : TriggerJob(j)
    \/ \E j \in DOMAIN status : CancelJob(j)
    \/ Tick

SpecNoRequeue == Init /\ [][NextNoRequeue]_vars

(***************************************************************************)
(* The job queue under fair scheduling: worker w1 stays alive, w2 may      *)
(* crash and is not restarted, there is no administrative requeue.  An     *)
(* idle worker sleeps poll_interval_s, which is one tick; the database     *)
(* steps of a live worker take no time, so the clock advances only while   *)
(* every live worker is asleep or inside a handler.                        *)
(***************************************************************************)
LiveWorkerStep(w) ==
    \/ RequeueStaleSelect(w)
    \/ ClaimSelect(w)
    \/ ClaimCommit(w)
    \/ ProcessBegin(w)
    \/ HandlerReturn(w)
    \/ HandlerRaise(w)
    \/ ProcessFinish(w)

TickLive ==
    /\ \A w \in Workers : pc[w] \in {"sleep", "exec", "crashed"}
    /\ started_at' = [j \in DOMAIN started_at |-> Older(started_at[j])]
    /\ pc' = [w \in Workers |-> IF pc[w] = "sleep" THEN "poll" ELSE pc[w]]
    /\ UNCHANGED <<status, finished_at, error, attempts, job_id, err, txStale, txJob,
                   starts>>
    /\ UNCHANGED notqueue

NextLive ==
    \/ \E w \in Workers : LiveWorkerStep(w)
    \/ Crash("w2")
    \/ \E j \in DOMAIN status : TriggerJob(j)
    \/ \E j \in DOMAIN status : CancelJob(j)
    \/ TickLive

SpecLive ==
    /\ Init
    /\ [][NextLive]_vars
    /\ \A w \in Workers : WF_vars(LiveWorkerStep(w))
    /\ WF_vars(TickLive)

(***************************************************************************)
(* The stale-check pass on a table with more stale rows than its LIMIT.    *)
(***************************************************************************)
StaleTable == 1..(StaleLimit + 1)

\* rows 1..a are running and stale, the next b rows are running under a live
\* lease, the rest are queued
InitStale ==
    /\ \E a \in 0..Cardinality(StaleTable) : \E b \in 0..(Cardinality(StaleTable) - a) :
         /\ status = [j \in StaleTable |-> IF j <= a + b THEN "running" ELSE "queued"]
         /\ started_at = [j \in StaleTable |-> IF j <= a THEN 0 - MaxAge ELSE 0]
    /\ finished_at = [j \in StaleTable |-> None]
    /\ error = [j \in StaleTable |-> <<>>]
    /\ attempts = [j \in StaleTable |-> 0]
    /\ InitWorkers
    /\ starts = [j \in StaleTable |-> 0]
    /\ AllocIdle
    /\ SearchIdle
    /\ ContextIdle
    /\ CacheIdle
    /\ LazyIdle
    /\ IngestIdle
    /\ ChatIdle
    /\ CiteIdle
    /\ MergeIdle

NextStale ==
    \/ \E w \in Workers : RequeueStaleSelect(w)
    \/ \E w \in Workers : ClaimSelect(w)
    \/ \E w \in Workers : ClaimCommit(w)

SpecStale == InitStale /\ [][NextStale]_vars

(***************************************************************************)
(* rag/kb_allocation.py: allocate_top_k.                                   *)
(*                                                                         *)
(* A kb_id is a number: 0 stands for a blank id, and the order of the      *)
(* numbers is the order of the id strings.  Weights are whole numbers; -1  *)
(* stands for a negative or non-finite weight.  The division               *)
(* remaining * weight / w_sum is an IEEE double division: its floor and    *)
(* its fractional part are computed with the rounding error of the double  *)
(* quotient (FloatErr), which is what decides the order of two fractional  *)
(* parts that are equal as exact fractions.                                *)
(***************************************************************************)
MaxBindings == 3
MaxWeight == 4
MaxPriority == 1
MaxK == 9
\* bits of a double's fraction
DoubleFractionBits == 52
\* scale that makes every rounding error a whole number
ErrScaleBits == 8

KbIds == 0..3
\* the value of allocation before the call: no list the function returns
NotCalled == <<[kb_id |-> 0 - 1, top_k |-> 0, weight |-> 0, priority |-> 0]>>

KbBinding == [kb_id : KbIds, weight : (0 - 1)..MaxWeight, priority : 0..MaxPriority]

RECURSIVE Pow2(_)
Pow2(n) == IF n = 0 THEN 1 ELSE 2 * Pow2(n - 1)

\* 2^m mod q, by squaring
RECURSIVE PowMod2(_, _)
PowMod2(m, q) ==
    IF m = 0 THEN 1 % q
    ELSE LET h == PowMod2(m \div 2, q)
         IN (h * h * (IF m % 2 = 1 THEN 2 ELSE 1)) % q

\* (p * 2^m) mod q, without forming p * 2^m
ShiftMod(p, m, q) == ((p % q) * PowMod2(m, q)) % q

\* exponent of the double p / q (p > 0): the e with 2^e <= p/q < 2^(e+1)
RECURSIVE ExpUp(_, _, _)
ExpUp(p, q, e) == IF 2 * q * Pow2(e) <= p THEN ExpUp(p, q, e + 1) ELSE e

RECURSIVE ExpDown(_, _, _)
ExpDown(p, q, d) == IF p * Pow2(d) >= q THEN 0 - d ELSE ExpDown(p, q, d + 1)

Exponent(p, q) == IF p >= q THEN ExpUp(p, q, 0) ELSE ExpDown(p, q, 1)

\* rounding error of the double quotient p / q (round to nearest, ties to even),
\* in units of 2^(-DoubleFractionBits - ErrScaleBits) / q
FloatErr(p, q) ==
    IF p = 0 THEN 0
    ELSE LET e == Exponent(p, q)
             r == ShiftMod(p, DoubleFractionBits - e, q)
             odd == ShiftMod(p, DoubleFractionBits - e, 2 * q) >= q
             up == 2 * r > q \/ (2 * r = q /\ odd)
         IN IF r = 0 THEN 0
            ELSE (IF up THEN q - r ELSE 0 - r) * Pow2(e + ErrScaleBits)

\* rounding the share up instead of down
FloorUp(raw) == raw[1] \div raw[2] + 1

\* raw_extra as the pair <<p, q>> of the division p / q
\* math.floor(raw_extra): the double quotient of small whole numbers never
\* rounds across a whole number
FloorOf(raw) == raw[1] \div raw[2]

\* raw_extra - math.floor(raw_extra) as <<exact fraction numerator, rounding error>>:
\* two such doubles over the same w_sum compare as these pairs do
FracOf(raw) == <<raw[1] % raw[2], FloatErr(raw[1], raw[2])>>

\* the order of two sort keys, Python's order of tuples of numbers
RECURSIVE KeyLess(_, _)
KeyLess(a, b) ==
    IF a = <<>> \/ b = <<>> THEN a = <<>> /\ b # <<>>
    ELSE IF Head(a) # Head(b) THEN Head(a) < Head(b)
    ELSE KeyLess(Tail(a), Tail(b))

\* sorted(): a stable sort of a sequence of <<key, item>> pairs by key
RECURSIVE InsertByKey(_, _)
InsertByKey(x, seq) ==
    IF seq = <<>> THEN <<x>>
    ELSE IF KeyLess(x[1], Head(seq)[1]) THEN <<x>> \o seq
    ELSE <<Head(seq)>> \o InsertByKey(x, Tail(seq))

RECURSIVE SortedByKey(_)
SortedByKey(seq) ==
    IF seq = <<>> THEN <<>>
    ELSE InsertByKey(seq[Len(seq)], SortedByKey(SubSeq(seq, 1, Len(seq) - 1)))

\* the items of a sequence of <<key, item>> pairs
RECURSIVE Items(_)
Items(seq) == IF seq = <<>> THEN <<>> ELSE <<Head(seq)[2]>> \o Items(Tail(seq))

RECURSIVE SumSeq(_)
SumSeq(seq) == IF seq = <<>> THEN 0 ELSE Head(seq) + SumSeq(Tail(seq))

\* lines 37-45: blank ids dropped, bad weights set to 0
CleanOne(b) == [kb_id |-> b.kb_id, weight |-> IF b.weight < 0 THEN 0 ELSE b.weight,
                priority |-> b.priority]

Clean(bs) ==
    LET kept == SelectSeq(bs, LAMBDA b : b.kb_id # 0)
    IN [i \in 1..Len(kept) |-> CleanOne(kept[i])]

\* a ranking that ignores the weight
RankKeyNoWeight(b) == <<b.priority, b.kb_id>>

\* key=lambda x: (-x.weight, x.priority, x.kb_id)
RankKey(b) == <<0 - b.weight, b.priority, b.kb_id>>

\* key=lambda x: (x.priority, x.kb_id)
OutputKey(b) == <<b.priority, b.kb_id>>

\* a sort of the remainders that puts the smallest fractional part first
SmallestFracFirst(frac, weight, priority, kid) ==
    <<frac[1], frac[2], 0 - weight, priority, 0 - kid>>

\* remainders.sort(reverse=True) on (frac, weight, -priority, kid): largest
\* first, which is smallest first on the negated tuple
RemainderKey(frac, weight, priority, kid) ==
    <<0 - frac[1], 0 - frac[2], 0 - weight, priority, 0 - kid>>

KbAllocation(b, top) ==
    [kb_id |-> b.kb_id, top_k |-> top, weight |-> b.weight, priority |-> b.priority]

\* for i in range(left): base_alloc[remainders[i % len(remainders)][3]] += 1
RECURSIVE GiveLeft(_, _, _, _)
GiveLeft(base_alloc, remainders, i, left) ==
    IF i >= left THEN base_alloc
    ELSE LET kid == remainders[(i % Len(remainders)) + 1]
         IN GiveLeft([base_alloc EXCEPT ![kid] = @ + 1], remainders, i + 1, left)

\* lines 61-97: total_k >= n
AllocateShares(clean, k) ==
    LET n == Len(clean)
        ids == {clean[i].kb_id : i \in 1..n}
        remaining == k - n
        sum0 == SumSeq([i \in 1..n |-> clean[i].weight])
        w_sum == IF sum0 <= 0 THEN n ELSE sum0
        \* a dict comprehension keeps the last value of a repeated key
        lastOf(kid) == CHOOSE i \in 1..n :
                          /\ clean[i].kb_id = kid
                          /\ \A h \in (i + 1)..n : clean[h].kb_id # kid
        weights == [kid \in ids |-> IF sum0 <= 0 THEN 1 ELSE clean[lastOf(kid)].weight]
        raw_extra == [kid \in ids |-> <<remaining * weights[kid], w_sum>>]
        extra_base == [kid \in ids |-> FloorOf(raw_extra[kid])]
        base_alloc == [kid \in ids |-> 1 + (IF extra_base[kid] > 0 THEN extra_base[kid] ELSE 0)]
        distinctIds == SelectSeq([i \in 1..n |-> IF lastOf(clean[i].kb_id) = i
                                                 THEN clean[i].kb_id ELSE 0],
                                 LAMBDA x : x # 0)
        used == SumSeq([i \in 1..Len(distinctIds) |-> extra_base[distinctIds[i]]])
        left == IF remaining - used > 0 THEN remaining - used ELSE 0
        remainders == Items(SortedByKey([i \in 1..n |->
                         <<RemainderKey(FracOf(raw_extra[clean[i].kb_id]),
                                        weights[clean[i].kb_id],
                                        clean[i].priority, clean[i].kb_id),
                           clean[i].kb_id>>]))
        final == IF left > 0 THEN GiveLeft(base_alloc, remainders, 0, left) ELSE base_alloc
        ordered == Items(SortedByKey([i \in 1..n |-> <<OutputKey(clean[i]), clean[i]>>]))
    IN [i \in 1..n |-> KbAllocation(ordered[i], final[ordered[i].kb_id])]

allocate_top_k(bs, tk) ==
    LET k == IF tk > 0 THEN tk ELSE 0
        clean == Clean(bs)
        n == Len(clean)
    IN IF k <= 0 THEN <<>>
       ELSE IF clean = <<>> THEN <<>>
       ELSE IF n = 1 THEN <<KbAllocation(clean[1], k)>>
       ELSE IF k < n
            THEN LET ranked == Items(SortedByKey([i \in 1..n |-> <<RankKey(clean[i]), clean[i]>>]))
                 IN [i \in 1..k |-> KbAllocation(ranked[i], 1)]
       ELSE AllocateShares(clean, k)

\* the caller (api/app.py) reads the bindings of one app: their kb ids differ
DistinctIds(bs) == \A i, j \in 1..Len(bs) : i # j => bs[i].kb_id # bs[j].kb_id

Allocate ==
    /\ allocation = NotCalled
    /\ allocation' = allocate_top_k(bindings, total_k)
    /\ UNCHANGED <<bindings, total_k>>
    /\ UNCHANGED notalloc

InitAlloc ==
    /\ \E n \in 0..MaxBindings :
         bindings \in {bs \in [1..n -> KbBinding] : DistinctIds(bs)}
    /\ total_k \in 0..MaxK
    /\ allocation = NotCalled
    /\ InitQueueIdle
    /\ SearchIdle
    /\ ContextIdle
    /\ CacheIdle
    /\ LazyIdle
    /\ IngestIdle
    /\ ChatIdle
    /\ CiteIdle
    /\ MergeIdle

NextAlloc == Allocate

SpecAlloc == InitAlloc /\ [][NextAlloc]_vars

(***************************************************************************)
(* rag/pgvector_store.py: hybrid_search.                                   *)
(*                                                                         *)
(* A score is an exact fraction <<numerator, denominator>> in lowest terms *)
(* with a positive denominator; the scores of the two searches are counted *)
(* in units of 1 / ScoreUnit and the weights in units of 1 / WeightUnit.   *)
(* Of a RetrievedChunk only chunk_id and score are kept: url, title,       *)
(* section_path and text are copied along by the code and never computed   *)
(* with.                                                                   *)
(***************************************************************************)
MaxChunks == 3
MaxScore == 2
ScoreUnit == 2
\* HYBRID_VECTOR_WEIGHT 0.7 and HYBRID_BM25_WEIGHT 0.3, in tenths
hybrid_vector_weight == 7
hybrid_bm25_weight == 3
WeightUnit == 10

ChunkIds == 1..MaxChunks

RECURSIVE Gcd(_, _)
Gcd(a, b) == IF b = 0 THEN a ELSE Gcd(b, a % b)

Abs(x) == IF x < 0 THEN 0 - x ELSE x

\* the fraction n / d (d # 0) in lowest terms with a positive denominator
Frac(n, d) ==
    LET g == Gcd(Abs(n), Abs(d))
        sign == IF d < 0 THEN 0 - 1 ELSE 1
    IN <<sign * (n \div g), sign * (d \div g)>>

FracAdd(a, b) == Frac(a[1] * b[2] + b[1] * a[2], a[2] * b[2])

FracMul(a, b) == Frac(a[1] * b[1], a[2] * b[2])

FracDiv(a, b) == Frac(a[1] * b[2], a[2] * b[1])

FracLess(a, b) == a[1] * b[2] < b[1] * a[2]

\* cosine similarities, 1.0 - distance: from -1/ScoreUnit to MaxScore/ScoreUnit
VecScores == {Frac(n, ScoreUnit) : n \in (0 - 1)..MaxScore}

\* ts_rank_cd values
LexScores == {Frac(n, ScoreUnit) : n \in 0..MaxScore}

RetrievedChunk(id, sc) == [chunk_id |-> id, score |-> sc]

\* the value of hits before the call: no list the function returns
NotSearched == <<RetrievedChunk(0, <<0, 1>>)>>

\* a list of rows of one search: the ids differ (Chunk.id is the primary key)
\* and the rows come best first (ORDER BY distance ASC / ORDER BY score DESC)
SearchRows(scores) ==
    UNION {{rows \in [1..n -> {RetrievedChunk(id, sc) : id \in ChunkIds, sc \in scores}] :
              /\ \A i, j \in 1..n : i # j => rows[i].chunk_id # rows[j].chunk_id
              /\ \A i \in 1..(n - 1) : ~FracLess(rows[i].score, rows[i + 1].score)}
           : n \in 0..MaxChunks}

\* a slice that does not cut
TakeAll(seq, k) == seq

\* seq[:k]
Take(seq, k) == SubSeq(seq, 1, IF Len(seq) < k THEN Len(seq) ELSE k)

\* max((c.score for c in rows), default=0.0) or 1.0
RECURSIVE MaxScoreOf(_)
MaxScoreOf(rows) ==
    IF rows = <<>> THEN <<0, 1>>
    ELSE IF Len(rows) = 1 THEN rows[1].score
    ELSE LET m == MaxScoreOf(Tail(rows))
         IN IF FracLess(Head(rows).score, m) THEN m ELSE Head(rows).score

OrOne(x) == IF x[1] = 0 THEN <<1, 1>> ELSE x

\* the row of chunk id in rows, <<>> when there is none
RowsOf(rows, id) == SelectSeq(rows, LAMBDA c : c.chunk_id = id)

\* the rows of lex whose chunk is not in combined yet (setdefault keeps the first)
NewRows(rows, seen) == SelectSeq(rows, LAMBDA c : RowsOf(seen, c.chunk_id) = <<>>)

\* a term that leaves the weight out
TermNoWeight(rows, id, weight, max) ==
    IF RowsOf(rows, id) = <<>> THEN <<0, 1>>
    ELSE FracDiv(RowsOf(rows, id)[1].score, max)

\* weight * (c.score / max), 0.0 for a chunk that is not in the list
Term(rows, id, weight, max) ==
    IF RowsOf(rows, id) = <<>> THEN <<0, 1>>
    ELSE FracMul(Frac(weight, WeightUnit), FracDiv(RowsOf(rows, id)[1].score, max))

\* merged.sort(key=lambda x: x.score, reverse=True): stable, best first
RECURSIVE InsertByScore(_, _)
InsertByScore(x, seq) ==
    IF seq = <<>> THEN <<x>>
    ELSE IF FracLess(Head(seq).score, x.score) THEN <<x>> \o seq
    ELSE <<Head(seq)>> \o InsertByScore(x, Tail(seq))

RECURSIVE SortedByScore(_)
SortedByScore(seq) ==
    IF seq = <<>> THEN <<>>
    ELSE InsertByScore(seq[Len(seq)], SortedByScore(SubSeq(seq, 1, Len(seq) - 1)))

RECURSIVE Rescored(_, _, _, _, _)
Rescored(combined, v, l, vec_max, lex_max) ==
    IF combined = <<>> THEN <<>>
    ELSE LET id == Head(combined).chunk_id
         IN <<RetrievedChunk(id, FracAdd(Term(v, id, hybrid_vector_weight, vec_max),
                                         Term(l, id, hybrid_bm25_weight, lex_max)))>>
            \o Rescored(Tail(combined), v, l, vec_max, lex_max)

\* lines 154-180: both lists have rows
Fuse(v, l, k) ==
    LET vec_max == OrOne(MaxScoreOf(v))
        lex_max == OrOne(MaxScoreOf(l))
        combined == v \o NewRows(l, v)
        merged == Rescored(combined, v, l, vec_max, lex_max)
    IN Take(SortedByScore(merged), k)

hybrid_search(v, l, k) ==
    IF v = <<>> /\ l = <<>> THEN <<>>
    ELSE IF l = <<>> THEN Take(v, k)
    ELSE IF v = <<>> THEN Take(l, k)
    ELSE Fuse(v, l, k)

HybridSearch ==
    /\ hits = NotSearched
    /\ hits' = hybrid_search(vec, lex, search_k)
    /\ UNCHANGED <<vec, lex, search_k>>
    /\ UNCHANGED notsearch

InitSearch ==
    /\ vec \in SearchRows(VecScores)
    /\ lex \in SearchRows(LexScores)
    /\ search_k \in 1..MaxChunks
    /\ hits = NotSearched
    /\ InitQueueIdle
    /\ AllocIdle
    /\ MergeIdle
    /\ CiteIdle
    /\ ChatIdle
    /\ IngestIdle
    /\ CacheIdle
    /\ LazyIdle
    /\ ContextIdle

NextSearch == HybridSearch

SpecSearch == InitSearch /\ [][NextSearch]_vars

(***************************************************************************)
(* rag/pipeline.py: prepare_rag, the retrieval over the allocated KBs, and *)
(* _merge_candidates.  What the store holds is not part of the model: a    *)
(* search with limit k returns any list of at most k rows, best first.     *)
(***************************************************************************)
MaxKbs == 2
MaxTopK == 2

\* the value of retrieved before the retrieval: no list the code produces
NotRetrieved == <<RetrievedChunk(0, <<0, 1>>)>>

\* what similarity_search or hybrid_search may return for the limit k
AllStoreRows == SearchRows(VecScores)

StoreRows(k) == {rows \in AllStoreRows : Len(rows) <= k}

\* for group in candidates: for c in group
RECURSIVE Flatten(_)
Flatten(gs) == IF gs = <<>> THEN <<>> ELSE Head(gs) \o Flatten(Tail(gs))

\* a dict update that lets the last row win
PutLast(by_id, c) ==
    IF RowsOf(by_id, c.chunk_id) = <<>> THEN Append(by_id, c)
    ELSE [i \in 1..Len(by_id) |-> IF by_id[i].chunk_id = c.chunk_id THEN c ELSE by_id[i]]

\* if (not prev) or c.score > prev.score: by_id[c.chunk_id] = c
\* (by_id is kept as the list of its values, in insertion order)
PutBest(by_id, c) ==
    IF RowsOf(by_id, c.chunk_id) = <<>> THEN Append(by_id, c)
    ELSE [i \in 1..Len(by_id) |->
            IF by_id[i].chunk_id = c.chunk_id /\ FracLess(by_id[i].score, c.score)
            THEN c ELSE by_id[i]]

RECURSIVE BestById(_, _)
BestById(by_id, rows) ==
    IF rows = <<>> THEN by_id
    ELSE BestById(PutBest(by_id, Head(rows)) \o <<>>, Tail(rows))

merge_candidates(candidates, k) ==
    Take(SortedByScore(BestById(<<>>, Flatten(candidates))), k)

\* allocations = [a for a in (kb_allocations or []) if int(a.top_k or 0) > 0]
Allocations(allocs) == SelectSeq(allocs, LAMBDA a : a.top_k > 0)

\* per_k = max(1, int(a.top_k))
PerK(a) == IF a.top_k < 1 THEN 1 ELSE a.top_k

\* lines 240-294: one search per allocation and the merge, or one global search
PrepareRetrieve ==
    /\ retrieved = NotRetrieved
    /\ LET allocations == Allocations(kb_allocations)
       IN IF allocations # <<>>
          THEN \E gs \in [1..Len(allocations) -> StoreRows(MaxTopK)] :
                  /\ \A i \in 1..Len(allocations) : Len(gs[i]) <= PerK(allocations[i])
                  /\ groups' = gs
                  /\ retrieved' = merge_candidates(gs, rag_top_k)
          ELSE \E rows \in StoreRows(rag_top_k) :
                  /\ groups' = <<>>
                  /\ retrieved' = rows
    /\ UNCHANGED <<kb_allocations, rag_top_k>>
    /\ UNCHANGED notmerge

InitMerge ==
    /\ \E n \in 0..MaxKbs :
         kb_allocations \in [1..n -> [kb_id : 1..MaxKbs, top_k : 0..MaxTopK]]
    /\ \A i, j \in 1..Len(kb_allocations) :
         i # j => kb_allocations[i].kb_id # kb_allocations[j].kb_id
    /\ rag_top_k \in 1..MaxChunks
    /\ groups = <<>>
    /\ retrieved = NotRetrieved
    /\ InitQueueIdle
    /\ AllocIdle
    /\ SearchIdle
    /\ ContextIdle
    /\ CacheIdle
    /\ LazyIdle
    /\ IngestIdle
    /\ ChatIdle
    /\ CiteIdle

NextMerge == PrepareRetrieve

SpecMerge == InitMerge /\ [][NextMerge]_vars

(***************************************************************************)
(* rag/pipeline.py: _sanitize_inline_citations.  A text is a list of       *)
(* characters.                                                             *)
(***************************************************************************)
MaxText == 6
MaxRef == 1
\* \d{1,3} in _CITATION_RE
MaxDigits == 3

Digits == {"0", "1"}
Chars == {"[", "]", " "} \cup Digits

\* the value of cleaned before the call: no text over Chars
NotCleaned == <<"not cleaned">>

Texts == UNION {[1..n -> Chars] : n \in 0..MaxText}

DigitVal(c) == IF c = "0" THEN 0 ELSE 1

\* int(m.group(1))
RECURSIVE IntOf(_)
IntOf(ds) ==
    IF ds = <<>> THEN 0
    ELSE 10 * IntOf(SubSeq(ds, 1, Len(ds) - 1)) + DigitVal(ds[Len(ds)])

\* the number of digits s starts with
RECURSIVE DigitRun(_)
DigitRun(s) ==
    IF s # <<>> /\ Head(s) \in Digits THEN 1 + DigitRun(Tail(s)) ELSE 0

\* the length of the match of "[", most digits digits, "]" at the start of s,
\* 0 when there is none
MarkerLen(s, most) ==
    IF s # <<>> /\ Head(s) = "["
    THEN LET d == DigitRun(Tail(s))
         IN IF d >= 1 /\ d <= most /\ Len(s) >= d + 2 /\ s[d + 2] = "]"
            THEN d + 2 ELSE 0
    ELSE 0

\* _repl: return m.group(0) if 1 <= n <= max_ref else ""
Repl(m, ref) ==
    LET n == IntOf(SubSeq(m, 2, Len(m) - 1))
    IN IF 1 <= n /\ n <= ref THEN m ELSE <<>>

\* the substitution of every match, left to right, for markers of at most
\* most digits
RECURSIVE SubMarkers(_, _, _)
SubMarkers(s, ref, most) ==
    IF s = <<>> THEN <<>>
    ELSE LET l == MarkerLen(s, most)
         IN IF l > 0
            THEN Repl(SubSeq(s, 1, l), ref) \o SubMarkers(SubSeq(s, l + 1, Len(s)), ref, most)
            ELSE <<Head(s)>> \o SubMarkers(Tail(s), ref, most)

\* re.sub(r" {2,}", " ", cleaned)
RECURSIVE CollapseSpaces(_)
CollapseSpaces(s) ==
    IF s = <<>> THEN <<>>
    ELSE IF Head(s) = " " /\ Len(s) >= 2 /\ s[2] = " "
         THEN CollapseSpaces(Tail(s))
         ELSE <<Head(s)>> \o CollapseSpaces(Tail(s))

RECURSIVE StripLeft(_)
StripLeft(s) == IF s # <<>> /\ Head(s) = " " THEN StripLeft(Tail(s)) ELSE s

RECURSIVE StripRight(_)
StripRight(s) ==
    IF s # <<>> /\ s[Len(s)] = " " THEN StripRight(SubSeq(s, 1, Len(s) - 1)) ELSE s

\* cleaned.strip()
Strip(s) == StripRight(StripLeft(s))

sanitize_inline_citations(t, ref) ==
    Strip(CollapseSpaces(SubMarkers(t, ref, MaxDigits)))

Sanitize ==
    /\ cleaned = NotCleaned
    /\ cleaned' = sanitize_inline_citations(text, max_ref)
    /\ UNCHANGED <<text, max_ref>>
    /\ UNCHANGED notcite

InitCite ==
    /\ text \in Texts
    /\ max_ref \in 0..MaxRef
    /\ cleaned = NotCleaned
    /\ InitQueueIdle
    /\ AllocIdle
    /\ SearchIdle
    /\ ContextIdle
    /\ CacheIdle
    /\ LazyIdle
    /\ IngestIdle
    /\ ChatIdle
    /\ MergeIdle

NextCite == Sanitize

SpecCite == InitCite /\ [][NextCite]_vars

(***************************************************************************)
(* api/app.py: openai_chat_completions and its event_stream, with          *)
(* rag/pipeline.py: prepare_rag and answer_with_rag.  Each request is an    *)
(* asyncio task; a step runs from one await or yield to the next.  The     *)
(* conversation compactor (rag/conversation.py) is taken from the          *)
(* specification: it is backed by the chat model and may call it.          *)
(***************************************************************************)
NumRequests == 2
MaxConcurrent == 2
MaxParts == 2

Requests == 1..NumRequests

\* asyncio.Semaphore(max(1, int(settings.max_concurrent_chat_requests or 1)))
Slots(n) == IF n < 1 THEN 1 ELSE n

\* a gate that lets everyone in
AlwaysAcquire(v) == TRUE

\* Semaphore.acquire returns once the value is positive
CanAcquire(v) == v > 0

\* n content deltas
ContentFrames(n) == [i \in 1..n |-> "content"]

\* a stream that starts without the role delta
NoRole(fs) == fs

\* the first yield of event_stream: delta {'role': 'assistant'}
RoleFirst(fs) == Append(fs, "role")

\* a failed upstream stream that ends the response at once
AbortAfterFailure == "release"

\* after the except branch of chat.stream the generator goes on to the stop frame
AfterStreamFailure == "stop"

\* a finally block that frees nothing
NotReleased(v) == v

\* finally: sem.release()
Released(v) == v + 1

Holding(r) == rpc[r] \notin {"acquire", "finished", "cut"}

\* await sem.acquire()
Acquire(r) ==
    /\ rpc[r] = "acquire"
    /\ CanAcquire(sem_value)
    /\ sem_value' = sem_value - 1
    /\ rpc' = [rpc EXCEPT ![r] = IF req_stream[r] THEN "role" ELSE "prepare"]
    /\ UNCHANGED <<req_stream, frames, chat_calls, in_call, answer, prepared,
                   n_retrieved, n_sources, chat, compaction_enabled, max_concurrent>>
    /\ UNCHANGED notchat

SendRole(r) ==
    /\ rpc[r] = "role"
    /\ frames' = [frames EXCEPT ![r] = RoleFirst(frames[r])]
    /\ rpc' = [rpc EXCEPT ![r] = "prepare"]
    /\ UNCHANGED <<req_stream, chat_calls, in_call, answer, prepared, n_retrieved,
                   n_sources, sem_value, chat, compaction_enabled, max_concurrent>>
    /\ UNCHANGED notchat

\* compact_conversation (rag/conversation.py), after the specification of the
\* Conversation Compactor: it is backed by the chat model, and it reports in
\* used_llm whether it called it
UsedLlm == BOOLEAN

\* prepare_rag up to the compaction: with a chat model and the compaction
\* enabled compact_conversation is awaited, and it may call the chat model
PrepareBegin(r) ==
    /\ rpc[r] = "prepare"
    /\ IF chat /\ compaction_enabled
       THEN \E used_llm \in UsedLlm :
               IF used_llm
               THEN /\ chat_calls' = [chat_calls EXCEPT ![r] = @ + 1]
                    /\ in_call' = [in_call EXCEPT ![r] = TRUE]
                    /\ rpc' = [rpc EXCEPT ![r] = "compacting"]
               ELSE /\ rpc' = [rpc EXCEPT ![r] = "retrieve"]
                    /\ UNCHANGED <<chat_calls, in_call>>
       ELSE /\ rpc' = [rpc EXCEPT ![r] = "retrieve"]
            /\ UNCHANGED <<chat_calls, in_call>>
    /\ UNCHANGED <<req_stream, frames, answer, prepared, n_retrieved, n_sources,
                   sem_value, chat, compaction_enabled, max_concurrent>>
    /\ UNCHANGED notchat

\* the compaction returns, or fails and is ignored (except Exception)
CompactEnd(r) ==
    /\ rpc[r] = "compacting"
    /\ in_call' = [in_call EXCEPT ![r] = FALSE]
    /\ rpc' = [rpc EXCEPT ![r] = "retrieve"]
    /\ UNCHANGED <<req_stream, frames, chat_calls, answer, prepared, n_retrieved,
                   n_sources, sem_value, chat, compaction_enabled, max_concurrent>>
    /\ UNCHANGED notchat

\* embedding, retrieval, rerank and the result of prepare_rag: the direct
\* answer with no source when nothing was retrieved, else the prompt messages
Retrieve(r) ==
    /\ rpc[r] = "retrieve"
    /\ \E n \in 0..1 :
          /\ n_retrieved' = [n_retrieved EXCEPT ![r] = n]
          /\ n_sources' = [n_sources EXCEPT ![r] = n]
          /\ prepared' = [prepared EXCEPT ![r] = IF n = 0 THEN "direct" ELSE "messages"]
    /\ rpc' = [rpc EXCEPT ![r] = IF req_stream[r] THEN "respond" ELSE "generate"]
    /\ UNCHANGED <<req_stream, frames, chat_calls, in_call, answer, sem_value,
                   chat, compaction_enabled, max_concurrent>>
    /\ UNCHANGED notchat

\* asyncio.wait_for times out (which cancels what is awaited) or, outside the
\* compaction, the preparation raises.  A streaming request goes on to the
\* error text; a plain request fails with HTTP 504 or 500 and frees its slot.
PrepareFail(r) ==
    /\ rpc[r] \in {"compacting", "retrieve"}
    /\ \E kind \in (IF rpc[r] = "compacting" THEN {"timeout"} ELSE {"timeout", "error"}) :
          IF req_stream[r]
          THEN /\ prepared' = [prepared EXCEPT ![r] = kind]
               /\ rpc' = [rpc EXCEPT ![r] = "prepare_failed"]
               /\ UNCHANGED <<answer, sem_value>>
          ELSE /\ answer' = [answer EXCEPT ![r] = IF kind = "timeout" THEN "http_504" ELSE "http_500"]
               /\ sem_value' = Released(sem_value)
               /\ rpc' = [rpc EXCEPT ![r] = "finished"]
               /\ UNCHANGED prepared
    /\ in_call' = [in_call EXCEPT ![r] = FALSE]
    /\ UNCHANGED <<req_stream, frames, chat_calls, n_retrieved, n_sources, chat,
                   compaction_enabled, max_concurrent>>
    /\ UNCHANGED notchat

\* the error text of a failed preparation, in pieces of 80 characters; nothing
\* more is sent as content because there is no prepared result
EmitPrepareError(r) ==
    /\ rpc[r] = "prepare_failed"
    /\ \E n \in 1..MaxParts : frames' = [frames EXCEPT ![r] = @ \o ContentFrames(n)]
    /\ answer' = [answer EXCEPT ![r] = "prepare_error"]
    /\ rpc' = [rpc EXCEPT ![r] = "stop"]
    /\ UNCHANGED <<req_stream, chat_calls, in_call, prepared, n_retrieved, n_sources,
                   sem_value, chat, compaction_enabled, max_concurrent>>
    /\ UNCHANGED notchat

\* the direct answer, in pieces of 60 characters
EmitDirect(r) ==
    /\ rpc[r] = "respond"
    /\ prepared[r] = "direct"
    /\ \E n \in 1..MaxParts : frames' = [frames EXCEPT ![r] = @ \o ContentFrames(n)]
    /\ answer' = [answer EXCEPT ![r] = "not_found"]
    /\ rpc' = [rpc EXCEPT ![r] = "stop"]
    /\ UNCHANGED <<req_stream, chat_calls, in_call, prepared, n_retrieved, n_sources,
                   sem_value, chat, compaction_enabled, max_concurrent>>
    /\ UNCHANGED notchat

\* no chat model: the list of the sources as the text
EmitNoChat(r) ==
    /\ rpc[r] = "respond"
    /\ prepared[r] = "messages"
    /\ ~chat
    /\ \E n \in 0..MaxParts : frames' = [frames EXCEPT ![r] = @ \o ContentFrames(n)]
    /\ answer' = [answer EXCEPT ![r] = "degraded"]
    /\ rpc' = [rpc EXCEPT ![r] = "stop"]
    /\ UNCHANGED <<req_stream, chat_calls, in_call, prepared, n_retrieved, n_sources,
                   sem_value, chat, compaction_enabled, max_concurrent>>
    /\ UNCHANGED notchat

\* async for part in chat.stream(...): the call starts
StreamBegin(r) ==
    /\ rpc[r] = "respond"
    /\ prepared[r] = "messages"
    /\ chat
    /\ chat_calls' = [chat_calls EXCEPT ![r] = @ + 1]
    /\ in_call' = [in_call EXCEPT ![r] = TRUE]
    /\ rpc' = [rpc EXCEPT ![r] = "streaming"]
    /\ UNCHANGED <<req_stream, frames, answer, prepared, n_retrieved, n_sources,
                   sem_value, chat, compaction_enabled, max_concurrent>>
    /\ UNCHANGED notchat

\* one part of the upstream stream is passed on
StreamPart(r) ==
    /\ rpc[r] = "streaming"
    /\ Len(frames[r]) <= MaxParts
    /\ frames' = [frames EXCEPT ![r] = Append(@, "content")]
    /\ UNCHANGED <<rpc, req_stream, chat_calls, in_call, answer, prepared, n_retrieved,
                   n_sources, sem_value, chat, compaction_enabled, max_concurrent>>
    /\ UNCHANGED notchat

\* the upstream stream ends; the list of sources may follow as one more delta
StreamEnd(r) ==
    /\ rpc[r] = "streaming"
    /\ \E tail \in 0..1 : frames' = [frames EXCEPT ![r] = @ \o ContentFrames(tail)]
    /\ in_call' = [in_call EXCEPT ![r] = FALSE]
    /\ answer' = [answer EXCEPT ![r] = "generated"]
    /\ rpc' = [rpc EXCEPT ![r] = "stop"]
    /\ UNCHANGED <<req_stream, chat_calls, prepared, n_retrieved, n_sources,
                   sem_value, chat, compaction_enabled, max_concurrent>>
    /\ UNCHANGED notchat

\* except Exception around chat.stream: the error text in pieces of 80 characters
StreamFail(r) ==
    /\ rpc[r] = "streaming"
    /\ \E n \in 1..MaxParts : frames' = [frames EXCEPT ![r] = @ \o ContentFrames(n)]
    /\ in_call' = [in_call EXCEPT ![r] = FALSE]
    /\ answer' = [answer EXCEPT ![r] = "upstream_error"]
    /\ rpc' = [rpc EXCEPT ![r] = AfterStreamFailure]
    /\ UNCHANGED <<req_stream, chat_calls, prepared, n_retrieved, n_sources,
                   sem_value, chat, compaction_enabled, max_concurrent>>
    /\ UNCHANGED notchat

\* the three closing yields: finish_reason stop, the sources event, [DONE]
SendClosing(r) ==
    /\ rpc[r] \in {"stop", "sources", "done"}
    /\ frames' = [frames EXCEPT ![r] =
                    Append(@, IF rpc[r] = "done" THEN "[DONE]" ELSE rpc[r])]
    /\ rpc' = [rpc EXCEPT ![r] =
                 IF rpc[r] = "stop" THEN "sources"
                 ELSE IF rpc[r] = "sources" THEN "done" ELSE "release"]
    /\ UNCHANGED <<req_stream, chat_calls, in_call, answer, prepared, n_retrieved,
                   n_sources, sem_value, chat, compaction_enabled, max_concurrent>>
    /\ UNCHANGED notchat

\* the generator ends: finally: sem.release()
Release(r) ==
    /\ rpc[r] = "release"
    /\ sem_value' = Released(sem_value)
    /\ rpc' = [rpc EXCEPT ![r] = "finished"]
    /\ UNCHANGED <<req_stream, frames, chat_calls, in_call, answer, prepared,
                   n_retrieved, n_sources, chat, compaction_enabled, max_concurrent>>
    /\ UNCHANGED notchat

\* the client goes away: the generator is cancelled where it stands; the
\* finally block frees the slot when the request is inside the try
ClientCut(r) ==
    /\ req_stream[r]
    /\ rpc[r] \notin {"finished", "cut"}
    /\ sem_value' = IF Holding(r) THEN Released(sem_value) ELSE sem_value
    /\ in_call' = [in_call EXCEPT ![r] = FALSE]
    /\ rpc' = [rpc EXCEPT ![r] = "cut"]
    /\ UNCHANGED <<req_stream, frames, chat_calls, answer, prepared, n_retrieved,
                   n_sources, chat, compaction_enabled, max_concurrent>>
    /\ UNCHANGED notchat

\* answer_with_rag without a chat call: the direct answer, or with no chat
\* model the list of the sources
ReturnWithoutChat(r) ==
    /\ rpc[r] = "generate"
    /\ prepared[r] = "direct" \/ ~chat
    /\ answer' = [answer EXCEPT ![r] = IF prepared[r] = "direct" THEN "not_found" ELSE "degraded"]
    /\ sem_value' = Released(sem_value)
    /\ rpc' = [rpc EXCEPT ![r] = "finished"]
    /\ UNCHANGED <<req_stream, frames, chat_calls, in_call, prepared, n_retrieved,
                   n_sources, chat, compaction_enabled, max_concurrent>>
    /\ UNCHANGED notchat

\* result = await chat.complete(...): the call starts
CompleteBegin(r) ==
    /\ rpc[r] = "generate"
    /\ prepared[r] = "messages"
    /\ chat
    /\ chat_calls' = [chat_calls EXCEPT ![r] = @ + 1]
    /\ in_call' = [in_call EXCEPT ![r] = TRUE]
    /\ rpc' = [rpc EXCEPT ![r] = "completing"]
    /\ UNCHANGED <<req_stream, frames, answer, prepared, n_retrieved, n_sources,
                   sem_value, chat, compaction_enabled, max_concurrent>>
    /\ UNCHANGED notchat

\* the call returns, raises (HTTP 500) or the total timeout cancels it (504)
CompleteEnd(r) ==
    /\ rpc[r] = "completing"
    /\ \E out \in {"generated", "http_500", "http_504"} :
          answer' = [answer EXCEPT ![r] = out]
    /\ in_call' = [in_call EXCEPT ![r] = FALSE]
    /\ sem_value' = Released(sem_value)
    /\ rpc' = [rpc EXCEPT ![r] = "finished"]
    /\ UNCHANGED <<req_stream, frames, chat_calls, prepared, n_retrieved, n_sources,
                   chat, compaction_enabled, max_concurrent>>
    /\ UNCHANGED notchat

InitChat ==
    /\ rpc = [r \in Requests |-> "acquire"]
    /\ req_stream \in [Requests -> BOOLEAN]
    /\ frames = [r \in Requests |-> <<>>]
    /\ chat_calls = [r \in Requests |-> 0]
    /\ in_call = [r \in Requests |-> FALSE]
    /\ answer = [r \in Requests |-> "none"]
    /\ prepared = [r \in Requests |-> "none"]
    /\ n_retrieved = [r \in Requests |-> 0 - 1]
    /\ n_sources = [r \in Requests |-> 0]
    /\ chat \in BOOLEAN
    /\ compaction_enabled \in BOOLEAN
    /\ max_concurrent \in 0..MaxConcurrent
    /\ sem_value = Slots(max_concurrent)
    /\ InitQueueIdle
    /\ AllocIdle
    /\ SearchIdle
    /\ ContextIdle
    /\ CacheIdle
    /\ LazyIdle
    /\ IngestIdle
    /\ MergeIdle
    /\ CiteIdle

NextChat ==
    \E r \in Requests :
        \/ Acquire(r)
        \/ SendRole(r)
        \/ PrepareBegin(r)
        \/ CompactEnd(r)
        \/ Retrieve(r)
        \/ PrepareFail(r)
        \/ EmitPrepareError(r)
        \/ EmitDirect(r)
        \/ EmitNoChat(r)
        \/ StreamBegin(r)
        \/ StreamPart(r)
        \/ StreamEnd(r)
        \/ StreamFail(r)
        \/ SendClosing(r)
        \/ Release(r)
        \/ ClientCut(r)
        \/ ReturnWithoutChat(r)
        \/ CompleteBegin(r)
        \/ CompleteEnd(r)

SpecChat == InitChat /\ [][NextChat]_vars

(***************************************************************************)
(* crawler/pipeline.py: crawl_and_store_pages, and indexing/pipeline.py:   *)
(* index_pages_to_chunks, each in its own database session, with a reader  *)
(* of the chunk rows.  A session's writes reach the tables at its commit;  *)
(* a crawl writes the crawl columns of pages, an index run writes          *)
(* indexed_content_hash and the chunk rows.  A url stands for its page,    *)
(* a document d for the readable content of a fetched page and a title for *)
(* its title (0: the empty string).  The extractor, the chunker and sha256_text are not in   *)
(* the repository's source tree and are taken from the specification.      *)
(***************************************************************************)
NumUrls == 2
MaxDoc == 1
MaxTitle == 1
MaxBudget == 2
MaxQuota == 3
MaxIndexRuns == 2

Urls == 1..NumUrls
Docs == 0..MaxDoc
Titles == 0..MaxTitle

\* utils.sha256_text: one hash per text, never the empty string (0)
sha256_text(c) == c + 1

\* indexing/chunking.chunk_markdown_by_headers: the number of chunks of a
\* content, the same on every call; the empty content has none
NumChunks(c) == IF c = 0 THEN 0 ELSE c + 1

\* a url with no row in pages, with the column defaults
NoPage == [exists |-> FALSE, title |-> 0, content_markdown |-> 0, content_hash |-> 0,
           indexed_content_hash |-> 0, http_status |-> 0, last_crawled_at |-> 0]

\* a url the crawl session has not written
NoWrite == [written |-> FALSE, row |-> NoPage]

NoCounts == [discovered |-> 0, fetched |-> 0, succeeded |-> 0, failed |-> 0]

\* x or y
OrElse(x, y) == IF x # 0 THEN x ELSE y

\* _touch_page
TouchPage(row, http_status, t) ==
    IF ~row.exists THEN row
    ELSE [row EXCEPT !.http_status = http_status, !.last_crawled_at = t]

\* a write that only touches the row it finds
TouchOnly(row, title, content, hash, http_status, t) ==
    IF ~row.exists THEN row
    ELSE [row EXCEPT !.http_status = http_status, !.last_crawled_at = t]

\* _upsert_page
UpsertPage(row, title, content, hash, http_status, t) ==
    [row EXCEPT !.exists = TRUE,
                !.title = OrElse(title, row.title),
                !.content_markdown = OrElse(content, row.content_markdown),
                !.content_hash = OrElse(hash, row.content_hash),
                !.http_status = http_status,
                !.last_crawled_at = t]

\* the row of url as the crawl session reads it
PageInCrawl(url) ==
    IF crawl_writes[url].written
    THEN [crawl_writes[url].row EXCEPT
            !.indexed_content_hash = pages[url].indexed_content_hash]
    ELSE pages[url]

\* the urls of a list, and the list without repeats
RECURSIVE Dedupe(_, _)
Dedupe(urls, have) ==
    IF urls = <<>> THEN <<>>
    ELSE IF Head(urls) \in have THEN Dedupe(Tail(urls), have)
         ELSE <<Head(urls)>> \o Dedupe(Tail(urls), have \cup {Head(urls)})

Range(f) == {f[i] : i \in DOMAIN f}

\* _discover_links: <<seen, q>> after the links of a page were looked at
RECURSIVE AddLinks(_, _, _, _)
AddLinks(links, sn, fr, budget) ==
    IF links = <<>> THEN <<sn, fr>>
    ELSE IF Head(links) \in sn THEN AddLinks(Tail(links), sn, fr, budget)
         ELSE IF Cardinality(sn) + 1 >= budget
              THEN <<sn \cup {Head(links)}, Append(fr, Head(links))>>
              ELSE AddLinks(Tail(links), sn \cup {Head(links)}, Append(fr, Head(links)), budget)

discover_links(links, sn, fr, budget) ==
    IF Cardinality(sn) >= budget THEN <<sn, fr>> ELSE AddLinks(links, sn, fr, budget)

\* the initial urls of a run after the filters, in any order with repeats
SeedLists == UNION {[1..n -> Urls] : n \in 1..NumUrls}

\* the links of the page fetched from url with readable content d, after
\* the filters: a page with content links to itself and to the next url
LinksOf(url, d) == IF d = 0 THEN <<>> ELSE <<url, (url % NumUrls) + 1>>

\* an incremental crawl that writes title, content and hash in every case
AlwaysUpsert(mode, row, title, content, hash, http_status, t) ==
    UpsertPage(row, title, content, hash, http_status, t)

\* lines 138-156: what a successful fetch leaves in the row of the page
StoreFetched(mode, row, title, content, hash, http_status, t) ==
    IF mode = "incremental" /\ row.content_hash # 0 /\ row.content_hash = hash
    THEN TouchPage(row, http_status, t)
    ELSE UpsertPage(row, title, content, hash, http_status, t)

\* a loop that goes on as long as the frontier has urls
WhileFrontier(fr, done, budget) == fr # <<>>

\* line 111: while q and len(visited) < max_pages
MayFetch(fr, done, budget) == fr # <<>> /\ Cardinality(done) < budget

\* lines 73-109
CrawlStart ==
    /\ crawl_pc = "idle"
    /\ \E mode \in {"full", "incremental"}, budget \in 1..MaxBudget,
          initial \in SeedLists :
          /\ crawl_quota + budget <= MaxQuota
          /\ crawl_quota' = crawl_quota + budget
          /\ crawl_mode' = mode
          /\ max_pages' = budget
          /\ frontier' = Dedupe(initial, {})
          /\ crawl_seen' = Range(initial)
          /\ counts' = [NoCounts EXCEPT !.discovered = Cardinality(Range(initial))]
    /\ crawl_visited' = {}
    /\ crawl_writes' = [u \in Urls |-> NoWrite]
    /\ crawl_pc' = "running"
    /\ UNCHANGED <<pages, chunks, next_chunk_id, index_pc, index_mode, loaded,
                   rebuilding, tx_deleted, tx_rows, tx_indexed, index_runs,
                   index_result, view>>
    /\ UNCHANGED notingest

\* one turn of the while loop, lines 111-172: the fetch of a url ends with an
\* HTTP error status, with an exception, or with a document and its links
CrawlFetch ==
    /\ crawl_pc = "running"
    /\ MayFetch(frontier, crawl_visited, max_pages)
    /\ LET url == Head(frontier)
           row == PageInCrawl(url)
           t == crawl_quota
       IN IF url \in crawl_visited
          THEN /\ frontier' = Tail(frontier)
               /\ UNCHANGED <<crawl_seen, crawl_visited, counts, crawl_writes>>
          ELSE /\ crawl_visited' = crawl_visited \cup {url}
               /\ \/ \E http_status \in {0, 404} :
                        /\ crawl_writes' = [crawl_writes EXCEPT ![url] =
                              [written |-> TRUE,
                               row |-> UpsertPage(row, 0, 0, 0, http_status, t)]]
                        /\ counts' = [counts EXCEPT !.fetched = @ + 1, !.failed = @ + 1]
                        /\ frontier' = Tail(frontier)
                        /\ UNCHANGED crawl_seen
                  \/ \E d \in Docs, title \in Titles :
                        LET found == discover_links(LinksOf(url, d), crawl_seen,
                                                    Tail(frontier), max_pages)
                        IN /\ crawl_writes' = [crawl_writes EXCEPT ![url] =
                                 [written |-> TRUE,
                                  row |-> StoreFetched(crawl_mode, row, title, d,
                                                       sha256_text(d), 200, t)]]
                           /\ counts' = [counts EXCEPT !.fetched = @ + 1, !.succeeded = @ + 1]
                           /\ crawl_seen' = found[1]
                           /\ frontier' = found[2]
    /\ UNCHANGED <<pages, chunks, next_chunk_id, crawl_pc, crawl_mode, max_pages,
                   crawl_quota, index_pc, index_mode, loaded, rebuilding, tx_deleted,
                   tx_rows, tx_indexed, index_runs, index_result, view>>
    /\ UNCHANGED notingest

\* the loop has ended: session.commit() and the result, lines 174-175; the
\* locals of the call are gone
CrawlCommit ==
    /\ crawl_pc = "running"
    /\ ~MayFetch(frontier, crawl_visited, max_pages)
    /\ pages' = [u \in Urls |-> IF crawl_writes[u].written THEN PageInCrawl(u) ELSE pages[u]]
    /\ counts' = [counts EXCEPT !.discovered =
                    IF @ < Cardinality(crawl_seen) THEN Cardinality(crawl_seen) ELSE @]
    /\ crawl_pc' = "idle"
    /\ frontier' = <<>>
    /\ crawl_seen' = {}
    /\ crawl_visited' = {}
    /\ crawl_writes' = [u \in Urls |-> NoWrite]
    /\ UNCHANGED <<chunks, next_chunk_id, crawl_mode, max_pages, crawl_quota, index_pc,
                   index_mode, loaded, rebuilding, tx_deleted, tx_rows, tx_indexed,
                   index_runs, index_result, view>>
    /\ UNCHANGED notingest

\* the Page object of url as the index session loads it
Loaded(url) == [url |-> url, content_markdown |-> pages[url].content_markdown,
                content_hash |-> pages[url].content_hash,
                indexed_content_hash |-> pages[url].indexed_content_hash]

\* the orders a SELECT without ORDER BY may give the urls of a set
Orders(S) == {o \in [1..Cardinality(S) -> S] : Range(o) = S}

\* lines 27-37: select the pages of the KB with http_status < 400
IndexStart ==
    /\ index_pc = "idle"
    /\ index_runs < MaxIndexRuns
    /\ \E mode \in {"full", "incremental"} : index_mode' = mode
    /\ \E o \in Orders({u \in Urls : pages[u].exists /\ pages[u].http_status < 400}) :
          loaded' = [i \in DOMAIN o |-> Loaded(o[i])]
    /\ rebuilding' = 0
    /\ tx_deleted' = {}
    /\ tx_rows' = {}
    /\ tx_indexed' = [u \in Urls |-> 0 - 1]
    /\ index_runs' = index_runs + 1
    /\ index_result' = [outcome |-> "running", pages |-> {}]
    /\ index_pc' = "running"
    /\ UNCHANGED <<pages, chunks, next_chunk_id, crawl_pc, crawl_mode, max_pages,
                   frontier, crawl_seen, crawl_visited, counts, crawl_writes,
                   crawl_quota, view>>
    /\ UNCHANGED notingest

\* if page.indexed_content_hash and page.indexed_content_hash == page.content_hash
UpToDate(page) ==
    page.indexed_content_hash # 0 /\ page.indexed_content_hash = page.content_hash

\* lines 39-42 and 68-69: the next page is skipped, or its chunk rows are
\* deleted in the session
IndexNext ==
    /\ index_pc = "running"
    /\ rebuilding = 0
    /\ loaded # <<>>
    /\ IF index_mode = "incremental" /\ UpToDate(Head(loaded))
       THEN /\ loaded' = Tail(loaded)
            /\ UNCHANGED <<rebuilding, tx_deleted>>
       ELSE /\ rebuilding' = Head(loaded).url
            /\ tx_deleted' = tx_deleted \cup {Head(loaded).url}
            /\ UNCHANGED loaded
    /\ UNCHANGED <<pages, chunks, next_chunk_id, crawl_pc, crawl_mode, max_pages,
                   frontier, crawl_seen, crawl_visited, counts, crawl_writes,
                   crawl_quota, index_pc, index_mode, tx_rows, tx_indexed,
                   index_runs, index_result, view>>
    /\ UNCHANGED notingest

\* the chunk rows of one chunking pass over content c of a page
PassRows(url, c, first) ==
    {[id |-> first + i, page_id |-> url, chunk_index |-> i, src |-> c] :
        i \in 0..(NumChunks(c) - 1)}

\* lines 71-97 and 52-54: the page is chunked and embedded, the rows are
\* added and indexed_content_hash is set, in the session
IndexInsert ==
    /\ index_pc = "running"
    /\ rebuilding # 0
    /\ LET page == Head(loaded)
       IN /\ tx_rows' = tx_rows \cup PassRows(page.url, page.content_markdown, next_chunk_id)
          /\ next_chunk_id' = next_chunk_id + NumChunks(page.content_markdown)
          /\ tx_indexed' = [tx_indexed EXCEPT ![page.url] = page.content_hash]
          /\ index_result' = [index_result EXCEPT !.pages = @ \cup {page.url}]
    /\ loaded' = Tail(loaded)
    /\ rebuilding' = 0
    /\ UNCHANGED <<pages, chunks, crawl_pc, crawl_mode, max_pages, frontier, crawl_seen,
                   crawl_visited, counts, crawl_writes, crawl_quota, index_pc,
                   index_mode, tx_deleted, index_runs, view>>
    /\ UNCHANGED notingest

\* the chunker or the embedding provider raises: nothing in
\* index_pages_to_chunks catches it, the session is closed without a commit
IndexRaise ==
    /\ index_pc = "running"
    /\ rebuilding # 0
    /\ loaded' = <<>>
    /\ rebuilding' = 0
    /\ tx_deleted' = {}
    /\ tx_rows' = {}
    /\ tx_indexed' = [u \in Urls |-> 0 - 1]
    /\ index_result' = [outcome |-> "raised", pages |-> {}]
    /\ index_pc' = "idle"
    /\ UNCHANGED <<pages, chunks, next_chunk_id, crawl_pc, crawl_mode, max_pages,
                   frontier, crawl_seen, crawl_visited, counts, crawl_writes,
                   crawl_quota, index_mode, index_runs, view>>
    /\ UNCHANGED notingest

\* line 56: session.commit()
IndexCommit ==
    /\ index_pc = "running"
    /\ rebuilding = 0
    /\ loaded = <<>>
    /\ chunks' = {r \in chunks : r.page_id \notin tx_deleted} \cup tx_rows
    /\ pages' = [u \in Urls |->
                   IF tx_indexed[u] >= 0
                   THEN [pages[u] EXCEPT !.indexed_content_hash = tx_indexed[u]]
                   ELSE pages[u]]
    /\ index_result' = [index_result EXCEPT !.outcome = "committed"]
    /\ index_pc' = "idle"
    /\ tx_deleted' = {}
    /\ tx_rows' = {}
    /\ tx_indexed' = [u \in Urls |-> 0 - 1]
    /\ UNCHANGED <<next_chunk_id, crawl_pc, crawl_mode, max_pages, frontier, crawl_seen,
                   crawl_visited, counts, crawl_writes, crawl_quota, index_mode,
                   loaded, rebuilding, index_runs, view>>
    /\ UNCHANGED notingest

\* the chunk rows with the writes of the open index session
Uncommitted == {r \in chunks : r.page_id \notin tx_deleted} \cup tx_rows

\* the chunk rows another session sees: the committed ones
Visible == chunks

\* a reader selects the chunk rows of a page; with the rows, the page the
\* index run is rebuilding at that moment is noted
ReadChunks ==
    /\ \E u \in Urls :
          view' = [page_id |-> u, rows |-> {r \in Visible : r.page_id = u},
                   rebuilding |-> rebuilding]
    /\ UNCHANGED <<pages, chunks, next_chunk_id, crawl_pc, crawl_mode, max_pages,
                   frontier, crawl_seen, crawl_visited, counts, crawl_writes,
                   crawl_quota, index_pc, index_mode, loaded, rebuilding, tx_deleted,
                   tx_rows, tx_indexed, index_runs, index_result>>
    /\ UNCHANGED notingest

InitIngest ==
    /\ pages = [u \in Urls |-> NoPage]
    /\ chunks = {}
    /\ next_chunk_id = 1
    /\ crawl_pc = "idle"
    /\ crawl_mode = "full"
    /\ max_pages = 1
    /\ frontier = <<>>
    /\ crawl_seen = {}
    /\ crawl_visited = {}
    /\ counts = NoCounts
    /\ crawl_writes = [u \in Urls |-> NoWrite]
    /\ crawl_quota = 0
    /\ index_pc = "idle"
    /\ index_mode = "full"
    /\ loaded = <<>>
    /\ rebuilding = 0
    /\ tx_deleted = {}
    /\ tx_rows = {}
    /\ tx_indexed = [u \in Urls |-> 0 - 1]
    /\ index_runs = 0
    /\ index_result = [outcome |-> "none", pages |-> {}]
    /\ view = [page_id |-> 1, rows |-> {}, rebuilding |-> 0]
    /\ InitQueueIdle
    /\ AllocIdle
    /\ SearchIdle
    /\ ContextIdle
    /\ CacheIdle
    /\ LazyIdle
    /\ MergeIdle
    /\ CiteIdle
    /\ ChatIdle

NextIngest ==
    \/ CrawlStart
    \/ CrawlFetch
    \/ CrawlCommit
    \/ IndexStart
    \/ IndexNext
    \/ IndexInsert
    \/ IndexRaise
    \/ IndexCommit

SpecIngest == InitIngest /\ [][NextIngest]_vars

\* the crawl runs alone; a turn of the loop ends (the fetch has a timeout and
\* a bounded number of attempts) and the run goes on until it returns
NextCrawl ==
    \/ CrawlStart
    \/ CrawlFetch
    \/ CrawlCommit

SpecCrawlLive ==
    InitIngest /\ [][NextCrawl]_vars /\ WF_vars(CrawlFetch) /\ WF_vars(CrawlCommit)

\* the tables after one full crawl of the site with a budget of NumUrls, every
\* page fetched with some content and title: the index runs and the readers
\* that follow, with no further crawl
InitRead ==
    /\ \E d \in [Urls -> Docs], title \in [Urls -> Titles] :
          pages = [u \in Urls |->
                     UpsertPage(NoPage, title[u], d[u], sha256_text(d[u]), 200, NumUrls)]
    /\ chunks = {}
    /\ next_chunk_id = 1
    /\ crawl_pc = "idle"
    /\ crawl_mode = "full"
    /\ max_pages = NumUrls
    /\ frontier = <<>>
    /\ crawl_seen = {}
    /\ crawl_visited = {}
    /\ counts = [discovered |-> NumUrls, fetched |-> NumUrls, succeeded |-> NumUrls,
                 failed |-> 0]
    /\ crawl_writes = [u \in Urls |-> NoWrite]
    /\ crawl_quota = NumUrls
    /\ index_pc = "idle"
    /\ index_mode = "full"
    /\ loaded = <<>>
    /\ rebuilding = 0
    /\ tx_deleted = {}
    /\ tx_rows = {}
    /\ tx_indexed = [u \in Urls |-> 0 - 1]
    /\ index_runs = 0
    /\ index_result = [outcome |-> "none", pages |-> {}]
    /\ view = [page_id |-> 1, rows |-> {}, rebuilding |-> 0]
    /\ InitQueueIdle
    /\ AllocIdle
    /\ SearchIdle
    /\ ContextIdle
    /\ CacheIdle
    /\ LazyIdle
    /\ MergeIdle
    /\ CiteIdle
    /\ ChatIdle

NextRead ==
    \/ IndexStart
    \/ IndexNext
    \/ IndexInsert
    \/ IndexRaise
    \/ IndexCommit
    \/ ReadChunks

SpecRead == InitRead /\ [][NextRead]_vars

(***************************************************************************)
(* rag/embeddings.py: CachedEmbeddingsProvider.embed_query, called from    *)
(* several threads.  The two sections under the lock are one step each;    *)
(* the call of the inner provider lies between them, outside the lock.  A  *)
(* vector is named by the number of the provider call that returned it.    *)
(***************************************************************************)
NumKeys == 3
NumCallers == 2
MaxSize == 2
MaxTtl == 1
MaxClock == 2
MaxLookups == 4

Keys == 1..NumKeys
Callers == 1..NumCallers

\* an entry never expires
AlwaysFresh(t, ts) == TRUE

\* line 68: if self.ttl_s <= 0 or (now - ts) <= self.ttl_s
Fresh(t, ts) == ttl_s <= 0 \/ (t - ts) <= ttl_s

KeysIn(entries) == {entries[i].key : i \in DOMAIN entries}

\* self._cache.get(key)
EntryOf(entries, key) == CHOOSE e \in Range(entries) : e.key = key

\* self._cache.pop(key, None)
Without(entries, key) == SelectSeq(entries, LAMBDA e : e.key # key)

\* self._cache[key] = item and move_to_end(key)
PutEntry(entries, item) == Append(Without(entries, item.key), item)

\* an eviction that drops the entries at the end
EvictNewest(entries, n) ==
    IF Len(entries) > n THEN SubSeq(entries, 1, n) ELSE entries

\* while len(self._cache) > self.max_size: self._cache.popitem(last=False)
RECURSIVE Evict(_, _)
Evict(entries, n) == IF Len(entries) > n THEN Evict(Tail(entries), n) ELSE entries

\* lines 60-71: the call up to the end of the first section under the lock
Lookup(c) ==
    /\ embed_pc[c] = "idle"
    /\ lookups < MaxLookups
    /\ lookups' = lookups + 1
    /\ \E key \in Keys :
          /\ embed_key' = [embed_key EXCEPT ![c] = key]
          /\ embed_now' = [embed_now EXCEPT ![c] = cache_clock]
          /\ IF max_size <= 0
             THEN /\ embed_pc' = [embed_pc EXCEPT ![c] = "calling"]
                  /\ embed_ret' = [embed_ret EXCEPT ![c] = [call |-> lookups', vec |-> 0]]
                  /\ UNCHANGED <<cache, last_used, use_count>>
             ELSE IF key \in KeysIn(cache) /\ Fresh(cache_clock, EntryOf(cache, key).ts)
             THEN /\ cache' = PutEntry(cache, EntryOf(cache, key))
                  /\ embed_ret' = [embed_ret EXCEPT ![c] =
                                     [call |-> lookups', vec |-> EntryOf(cache, key).vec]]
                  /\ use_count' = use_count + 1
                  /\ last_used' = [last_used EXCEPT ![key] = use_count']
                  /\ UNCHANGED embed_pc
             ELSE /\ cache' = Without(cache, key)
                  /\ embed_pc' = [embed_pc EXCEPT ![c] = "calling"]
                  /\ embed_ret' = [embed_ret EXCEPT ![c] = [call |-> lookups', vec |-> 0]]
                  /\ UNCHANGED <<last_used, use_count>>
    /\ UNCHANGED <<cache_clock, max_size, ttl_s, provider_calls>>
    /\ UNCHANGED notcache

\* lines 73-79: the inner provider returns a vector, the second section
\* under the lock stores it
ProviderReturn(c) ==
    /\ embed_pc[c] = "calling"
    /\ provider_calls' = provider_calls + 1
    /\ embed_ret' = [embed_ret EXCEPT ![c].vec = provider_calls']
    /\ embed_pc' = [embed_pc EXCEPT ![c] = "idle"]
    /\ IF max_size <= 0
       THEN UNCHANGED <<cache, last_used, use_count>>
       ELSE /\ cache' = Evict(PutEntry(cache, [key |-> embed_key[c], ts |-> embed_now[c],
                                               vec |-> provider_calls']), max_size)
            /\ use_count' = use_count + 1
            /\ last_used' = [last_used EXCEPT ![embed_key[c]] = use_count']
    /\ UNCHANGED <<cache_clock, max_size, ttl_s, embed_key, embed_now, lookups>>
    /\ UNCHANGED notcache

\* line 73: the inner provider raises, embed_query raises
ProviderRaise(c) ==
    /\ embed_pc[c] = "calling"
    /\ embed_pc' = [embed_pc EXCEPT ![c] = "idle"]
    /\ UNCHANGED <<cache, cache_clock, max_size, ttl_s, embed_key, embed_now, embed_ret,
                   provider_calls, lookups, last_used, use_count>>
    /\ UNCHANGED notcache

\* time passes
CacheTick ==
    /\ cache_clock < MaxClock
    /\ cache_clock' = cache_clock + 1
    /\ UNCHANGED <<cache, max_size, ttl_s, embed_pc, embed_key, embed_now, embed_ret,
                   provider_calls, lookups, last_used, use_count>>
    /\ UNCHANGED notcache

InitCache ==
    /\ cache = <<>>
    /\ cache_clock = 0
    /\ max_size \in 0..MaxSize
    /\ ttl_s \in 0..MaxTtl
    /\ embed_pc = [c \in Callers |-> "idle"]
    /\ embed_key = [c \in Callers |-> 1]
    /\ embed_now = [c \in Callers |-> 0]
    /\ embed_ret = [c \in Callers |-> [call |-> 0, vec |-> 0]]
    /\ provider_calls = 0
    /\ lookups = 0
    /\ last_used = [k \in Keys |-> 0]
    /\ use_count = 0
    /\ InitQueueIdle
    /\ AllocIdle
    /\ SearchIdle
    /\ ContextIdle
    /\ LazyIdle
    /\ MergeIdle
    /\ CiteIdle
    /\ ChatIdle
    /\ IngestIdle

NextCache ==
    \/ \E c \in Callers : Lookup(c)
    \/ \E c \in Callers : ProviderReturn(c)
    \/ \E c \in Callers : ProviderRaise(c)
    \/ CacheTick

SpecCache == InitCache /\ [][NextCache]_vars

(***************************************************************************)
(* rag/pipeline.py: _build_context.  A string is the sequence of its       *)
(* characters; the chunks have an empty url, title and section path and a  *)
(* text over CtxChars.                                                     *)
(***************************************************************************)
MaxCtxChunks == 2
MaxCtxText == 2
MaxCtxChars == 56

CtxChars == {"a", "\n"}
CtxTexts == UNION {[1..n -> CtxChars] : n \in 0..MaxCtxText}

\* the value of context before the call: no string
NotBuilt == <<"not built">>

RetrievedChunks == {[url |-> <<>>, title |-> <<>>, section_path |-> <<>>, text |-> t] :
                      t \in CtxTexts}

\* str(i) for the ordinals 1..9
OrdinalChars(i) == <<SubSeq(<<"1", "2", "3", "4", "5", "6", "7", "8", "9">>, i, i)[1]>>

\* line 169: the block of the i-th chunk; the three labels of two CJK
\* characters each are written with two Latin letters each
BlockOf(i, c) ==
    <<"[">> \o OrdinalChars(i) \o <<"]", "\n">>
    \o <<"U", "R", "L", ":", " ">> \o c.url \o <<"\n">>
    \o <<"B", "T", ":", " ">> \o c.title \o <<"\n">>
    \o <<"Z", "J", ":", " ">> \o c.section_path \o <<"\n">>
    \o <<"N", "R", ":", "\n">> \o c.text \o <<"\n">>

\* lines 168-173: the blocks appended, from the i-th chunk on, with sum
\* characters appended so far
RECURSIVE TakeBlocks(_, _, _, _)
TakeBlocks(cs, i, sum, most) ==
    IF i > Len(cs) THEN <<>>
    ELSE IF sum + Len(BlockOf(i, cs[i])) > most THEN <<>>
         ELSE <<BlockOf(i, cs[i])>> \o TakeBlocks(cs, i + 1, sum + Len(BlockOf(i, cs[i])), most)

\* "\n\n".join(parts)
RECURSIVE JoinBlocks(_)
JoinBlocks(bs) ==
    IF bs = <<>> THEN <<>>
    ELSE IF Len(bs) = 1 THEN bs[1]
         ELSE bs[1] \o <<"\n", "\n">> \o JoinBlocks(Tail(bs))

IsSpace(ch) == ch \in {" ", "\n"}

\* str.strip()
RECURSIVE StripWs(_)
StripWs(s) ==
    IF s = <<>> THEN s
    ELSE IF IsSpace(Head(s)) THEN StripWs(Tail(s))
         ELSE IF IsSpace(s[Len(s)]) THEN StripWs(SubSeq(s, 1, Len(s) - 1))
              ELSE s

build_context(cs, most) == StripWs(JoinBlocks(TakeBlocks(cs, 1, 0, most)))

BuildContext ==
    /\ context = NotBuilt
    /\ context' = build_context(ctx_chunks, ctx_max_chars)
    /\ UNCHANGED <<ctx_chunks, ctx_max_chars>>
    /\ UNCHANGED notcontext

InitContext ==
    /\ ctx_chunks \in UNION {[1..n -> RetrievedChunks] : n \in 0..MaxCtxChunks}
    /\ ctx_max_chars \in 0..MaxCtxChars
    /\ context = NotBuilt
    /\ InitQueueIdle
    /\ AllocIdle
    /\ SearchIdle
    /\ MergeIdle
    /\ CiteIdle
    /\ ChatIdle
    /\ IngestIdle
    /\ CacheIdle
    /\ LazyIdle

NextContext == BuildContext

SpecContext == InitContext /\ [][NextContext]_vars

(***************************************************************************)
(* rag/embeddings.py: LazyEmbeddingsProvider.  Callers on several threads  *)
(* call embed_documents or embed_query, each of which starts with          *)
(* _get_inner().  The read of _inner before the lock, the acquisition of   *)
(* the lock, the read under the lock, the factory call, the release of the *)
(* lock and the final read of _inner are separate steps.                   *)
(***************************************************************************)
\* threads that call the provider
NumLazyCallers == 3
\* calls of _get_inner that are followed
MaxLazyCalls == 4

LazyCallers == 1..NumLazyCallers

\* a locked section that builds without looking at _inner
Unchecked(inner) == TRUE

\* line 34: if self._inner is None
MustBuild(inner) == inner = None

\* lines 31-33: the call starts; a set _inner is returned without the lock
LazyCall(c) ==
    /\ lazy_pc[c] = "idle"
    /\ lazy_calls < MaxLazyCalls
    /\ lazy_calls' = lazy_calls + 1
    /\ IF lazy_inner # None
       THEN /\ lazy_got' = [lazy_got EXCEPT ![c] = lazy_inner]
            /\ UNCHANGED lazy_pc
       ELSE /\ lazy_pc' = [lazy_pc EXCEPT ![c] = "waiting"]
            /\ UNCHANGED lazy_got
    /\ UNCHANGED <<lazy_inner, lazy_lock, factory_calls>>
    /\ UNCHANGED notlazy

\* line 33: with self._lock, entered when the lock is free
LazyAcquire(c) ==
    /\ lazy_pc[c] = "waiting"
    /\ lazy_lock = None
    /\ lazy_lock' = c
    /\ lazy_pc' = [lazy_pc EXCEPT ![c] = "locked"]
    /\ UNCHANGED <<lazy_inner, lazy_got, factory_calls, lazy_calls>>
    /\ UNCHANGED notlazy

\* lines 34-35: the check under the lock; the factory is called when _inner is None
LazyCheck(c) ==
    /\ lazy_pc[c] = "locked"
    /\ IF MustBuild(lazy_inner)
       THEN /\ factory_calls' = factory_calls + 1
            /\ lazy_pc' = [lazy_pc EXCEPT ![c] = "building"]
       ELSE /\ lazy_pc' = [lazy_pc EXCEPT ![c] = "release"]
            /\ UNCHANGED factory_calls
    /\ UNCHANGED <<lazy_inner, lazy_lock, lazy_got, lazy_calls>>
    /\ UNCHANGED notlazy

\* line 35: the factory returns a new provider, which is assigned to _inner
FactoryReturn(c) ==
    /\ lazy_pc[c] = "building"
    /\ lazy_inner' = factory_calls
    /\ lazy_pc' = [lazy_pc EXCEPT ![c] = "release"]
    /\ UNCHANGED <<lazy_lock, lazy_got, factory_calls, lazy_calls>>
    /\ UNCHANGED notlazy

\* line 35: the factory raises; the with block releases the lock and the
\* exception leaves _get_inner
FactoryRaise(c) ==
    /\ lazy_pc[c] = "building"
    /\ lazy_lock' = None
    /\ lazy_pc' = [lazy_pc EXCEPT ![c] = "idle"]
    /\ UNCHANGED <<lazy_inner, lazy_got, factory_calls, lazy_calls>>
    /\ UNCHANGED notlazy

\* the end of the with block: the lock is released
LazyRelease(c) ==
    /\ lazy_pc[c] = "release"
    /\ lazy_lock' = None
    /\ lazy_pc' = [lazy_pc EXCEPT ![c] = "return"]
    /\ UNCHANGED <<lazy_inner, lazy_got, factory_calls, lazy_calls>>
    /\ UNCHANGED notlazy

\* line 36: return self._inner
LazyReturn(c) ==
    /\ lazy_pc[c] = "return"
    /\ lazy_got' = [lazy_got EXCEPT ![c] = lazy_inner]
    /\ lazy_pc' = [lazy_pc EXCEPT ![c] = "idle"]
    /\ UNCHANGED <<lazy_inner, lazy_lock, factory_calls, lazy_calls>>
    /\ UNCHANGED notlazy

\* lines 25-29: the provider after __init__
InitLazy ==
    /\ lazy_inner = None
    /\ lazy_lock = None
    /\ lazy_pc = [c \in LazyCallers |-> "idle"]
    /\ lazy_got = [c \in LazyCallers |-> None]
    /\ factory_calls = 0
    /\ lazy_calls = 0
    /\ InitQueueIdle
    /\ AllocIdle
    /\ SearchIdle
    /\ MergeIdle
    /\ CiteIdle
    /\ ChatIdle
    /\ IngestIdle
    /\ CacheIdle
    /\ ContextIdle

NextLazy ==
    \E c \in LazyCallers :
       \/ LazyCall(c)
       \/ LazyAcquire(c)
       \/ LazyCheck(c)
       \/ FactoryReturn(c)
       \/ FactoryRaise(c)
       \/ LazyRelease(c)
       \/ LazyReturn(c)

SpecLazy == InitLazy /\ [][NextLazy]_vars

(***************************************************************************)
(* Claims about the job queue.                                             *)
(***************************************************************************)
\* the handler of job j is running in worker w
Executing(w, j) == pc[w] = "exec" /\ job_id[w] = j

\* steps of the claim transaction of worker w, recognised by its position
StaleSelectStep(w) == pc[w] = "poll" /\ pc'[w] = "tx_stale"
ClaimSelectStep(w) == pc[w] = "tx_stale" /\ pc'[w] = "tx_claim"
CommitStep(w) == pc[w] = "tx_claim" /\ pc'[w] \in {"sleep", "claimed"}

\* C1: at most one worker executes a given job at any time, under every
\* interleaving of claim, stale reclaim, execution, completion and
\* administrative requeue.
C1_OneRunner ==
    \A j \in DOMAIN status : Cardinality({w \in Workers : Executing(w, j)}) <= 1

\* C2: concurrent claim transactions never yield the same job: a claim SELECT
\* returns a queued row that no other transaction has locked, returns nothing
\* only when every queued row is locked by another transaction (it skips, it
\* does not wait), and the claim commits on a row that is still queued and
\* that no other open claim holds.
C2_ClaimExclusive ==
    [][\A w \in Workers :
        /\ ClaimSelectStep(w) =>
             /\ txJob'[w] # None =>
                  /\ status[txJob'[w]] = "queued"
                  /\ \A o \in Workers \ {w} : txJob'[w] \notin LockedBy(o)
             /\ txJob'[w] = None =>
                  \A j \in DOMAIN status :
                     status[j] = "queued" => \E o \in Workers \ {w} : j \in LockedBy(o)
        /\ (CommitStep(w) /\ pc'[w] = "claimed") =>
             /\ job_id'[w] = txJob[w]
             /\ status[txJob[w]] = "queued"
             /\ status'[txJob[w]] = "running"
             /\ \A o \in Workers \ {w} : txJob[o] # txJob[w]]_vars

\* C2 witness: two claim transactions are open at once, each holding a row
C2_Witness ==
    /\ txJob["w1"] # None
    /\ txJob["w2"] # None
    /\ pc["w1"] = "tx_claim"
    /\ pc["w2"] = "tx_claim"

\* C3: without an administrative requeue the handler of a job is started at
\* most max_attempts times in total, runs cut short by a worker crash and
\* later reclaimed included (starts counts the handler starts since the last
\* administrative requeue).
C3_StartsCapped ==
    [][\A j \in DOMAIN status : starts'[j] <= max_attempts]_vars

WorkerEdges ==
    {<<"queued", "running">>, <<"running", "succeeded">>, <<"running", "failed">>,
     <<"running", "queued">>}

\* the status edges an administrative step may take: cancel, requeue, insert
AdminEdges ==
    {<<"queued", "cancelled">>, <<"absent", "queued">>}
       \cup {<<s, "queued">> : s \in {"running", "succeeded", "failed", "cancelled"}}

\* C5: a job's status changes only along queued->running, running->succeeded,
\* running->failed, running->queued (worker steps), queued->cancelled (cancel)
\* and any->queued (administrative requeue); once a job is succeeded, failed
\* or cancelled no worker step changes its status.
C5_EdgesOnly ==
    [][\A j \in DOMAIN status :
          status'[j] # status[j] =>
             IF pc' # pc
             THEN <<status[j], status'[j]>> \in WorkerEdges
             ELSE <<status[j], status'[j]>> \in AdminEdges]_vars

\* C6: cancel takes effect only on a queued job (a job becomes cancelled only
\* from queued), and a job that was cancelled is never executed by a worker.
C6_CancelOnlyQueued ==
    [][\A j \in DOMAIN status :
          /\ (status'[j] = "cancelled" /\ status[j] # "cancelled") => status[j] = "queued"
          /\ status'[j] = "cancelled" => \A w \in Workers : ~Executing(w, j)']_vars

\* job j is running and no live worker holds it: it was left by a crashed worker
Orphaned(j) == status[j] = "running" /\ \A w \in Workers : job_id[w] # j

Called == allocation # NotCalled

\* the bindings kept after dropping blank ids
KeptIdx == {i \in 1..Len(bindings) : bindings[i].kb_id # 0}

NKept == Cardinality(KeptIdx)

\* the weight of a binding after clamping
WeightOf(i) == IF bindings[i].weight < 0 THEN 0 ELSE bindings[i].weight

HasAllocation(i) == \E a \in 1..Len(allocation) : allocation[a].kb_id = bindings[i].kb_id

\* what binding i receives: the top_k of its allocation, 0 without one
TopKOf(i) ==
    IF HasAllocation(i)
    THEN allocation[CHOOSE a \in 1..Len(allocation) :
                       allocation[a].kb_id = bindings[i].kb_id].top_k
    ELSE 0

SumTopK == SumSeq([a \in 1..Len(allocation) |-> allocation[a].top_k])

RefTotal == SumSeq([i \in 1..Len(bindings) |-> IF i \in KeptIdx THEN WeightOf(i) ELSE 0])

RefWeight(i) == IF RefTotal = 0 THEN 1 ELSE WeightOf(i)

RefW == IF RefTotal = 0 THEN NKept ELSE RefTotal

RefFloor(i) == ((total_k - NKept) * RefWeight(i)) \div RefW

\* the fractional remainder of binding i, in units of 1 / W
RefFrac(i) == ((total_k - NKept) * RefWeight(i)) % RefW

\* binding i comes before binding j for a left-over unit
RefBefore(i, j) ==
    \/ RefFrac(i) > RefFrac(j)
    \/ RefFrac(i) = RefFrac(j) /\ RefWeight(i) > RefWeight(j)
    \/ /\ RefFrac(i) = RefFrac(j)
       /\ RefWeight(i) = RefWeight(j)
       /\ bindings[i].priority < bindings[j].priority

\* C9: when k >= n >= 2, every kept binding receives 1 plus
\* floor((k - n) * w_i / W), plus at most one left-over unit; the left-over
\* units go to the bindings with the largest fractional remainder, ties broken
\* by larger weight, then lower priority: no binding without a left-over unit
\* comes before one that has one.
C9_ReferenceRule ==
    (Called /\ NKept >= 2 /\ total_k >= NKept) =>
        LET extra(i) == TopKOf(i) - 1 - RefFloor(i)
        IN /\ \A i \in KeptIdx : extra(i) \in {0, 1}
           /\ \A i, j \in KeptIdx : (extra(i) = 1 /\ extra(j) = 0) => ~RefBefore(j, i)

\* binding i ranks before binding j: weight descending, priority ascending,
\* id ascending
RanksBefore(i, j) ==
    \/ WeightOf(i) > WeightOf(j)
    \/ WeightOf(i) = WeightOf(j) /\ bindings[i].priority < bindings[j].priority
    \/ /\ WeightOf(i) = WeightOf(j)
       /\ bindings[i].priority = bindings[j].priority
       /\ bindings[i].kb_id < bindings[j].kb_id

\* C10: when 1 <= k < n, exactly k bindings receive an allocation, each of
\* exactly 1; they are the k ranked first by weight descending, priority
\* ascending, id ascending; every other binding receives nothing.
C10_TopRankedGetOne ==
    (Called /\ total_k >= 1 /\ total_k < NKept) =>
        LET chosen == {i \in KeptIdx : HasAllocation(i)}
        IN /\ Len(allocation) = total_k
           /\ Cardinality(chosen) = total_k
           /\ \A i \in chosen : TopKOf(i) = 1
           /\ \A i \in KeptIdx \ chosen : TopKOf(i) = 0
           /\ \A i \in chosen, j \in KeptIdx \ chosen : RanksBefore(i, j)

\* C10 witness: budget 2 for three kept bindings; a binding that comes first
\* in the input and by priority is left out for its lower weight
C10_Witness ==
    /\ Called
    /\ total_k = 2
    /\ NKept = 3
    /\ \E i, j \in KeptIdx :
         /\ j < i
         /\ bindings[j].priority < bindings[i].priority
         /\ TopKOf(i) = 1
         /\ ~HasAllocation(j)

\* C11: for every input the returned list is sorted by priority ascending,
\* then kb_id ascending.
C11_OutputSorted ==
    Called =>
        \A a, b \in 1..Len(allocation) :
           a < b =>
              \/ allocation[a].priority < allocation[b].priority
              \/ /\ allocation[a].priority = allocation[b].priority
                 /\ allocation[a].kb_id <= allocation[b].kb_id

(***************************************************************************)
(* Claims about the hybrid search.                                         *)
(***************************************************************************)
Searched == hits # NotSearched

InVec(id) == \E i \in 1..Len(vec) : vec[i].chunk_id = id

InLex(id) == \E i \in 1..Len(lex) : lex[i].chunk_id = id

HitIds == {hits[i].chunk_id : i \in 1..Len(hits)}

CandidateIds == {id \in ChunkIds : InVec(id) \/ InLex(id)}

\* C12: every returned chunk has a score in [0, vector_weight + bm25_weight],
\* and its score is not 0 (a returned chunk is in one of the two lists).
C12_ScoreInRange ==
    Searched =>
        \A i \in 1..Len(hits) :
           /\ ~FracLess(hits[i].score, <<0, 1>>)
           /\ ~FracLess(Frac(hybrid_vector_weight + hybrid_bm25_weight, WeightUnit),
                        hits[i].score)
           /\ hits[i].score # <<0, 1>>

\* C13: with an empty vector list and a non-empty lexical list the result is
\* the lexical list, same rows in the same order, cut to k; the same with the
\* lists exchanged; with both empty the result is empty.
C13_Fallback ==
    Searched =>
        /\ (vec = <<>> /\ lex # <<>>) =>
              /\ Len(hits) = (IF Len(lex) < search_k THEN Len(lex) ELSE search_k)
              /\ \A i \in 1..Len(hits) : hits[i] = lex[i]
        /\ (lex = <<>> /\ vec # <<>>) =>
              /\ Len(hits) = (IF Len(vec) < search_k THEN Len(vec) ELSE search_k)
              /\ \A i \in 1..Len(hits) : hits[i] = vec[i]
        /\ (vec = <<>> /\ lex = <<>>) => hits = <<>>

\* C13 witness: no vector rows, three lexical rows, k = 2: two rows come back
C13_Witness ==
    /\ Searched
    /\ vec = <<>>
    /\ Len(lex) = 3
    /\ search_k = 2
    /\ Len(hits) = 2
    /\ hits[1] = lex[1]

\* the largest score of a non-empty list, 1 when that is 0
RefMax(rows) ==
    LET top == CHOOSE m \in {rows[i].score : i \in 1..Len(rows)} :
                  \A i \in 1..Len(rows) : ~FracLess(m, rows[i].score)
    IN IF top = <<0, 1>> THEN <<1, 1>> ELSE top

\* the normalised score of chunk id in a list, 0 when it is not there
RefNorm(rows, id) ==
    IF \E i \in 1..Len(rows) : rows[i].chunk_id = id
    THEN FracDiv(rows[CHOOSE i \in 1..Len(rows) : rows[i].chunk_id = id].score, RefMax(rows))
    ELSE <<0, 1>>

\* vector_weight * norm_vector + bm25_weight * norm_lexical
RefScore(id) ==
    FracAdd(FracMul(Frac(hybrid_vector_weight, WeightUnit), RefNorm(vec, id)),
            FracMul(Frac(hybrid_bm25_weight, WeightUnit), RefNorm(lex, id)))

\* C14: with rows in both lists, every chunk id is returned at most once with
\* the score vector_weight * norm_vector + bm25_weight * norm_lexical, the
\* scores do not increase along the list, at most k chunks are returned and
\* they are the k best of the union of the two lists.
C14_Fusion ==
    (Searched /\ vec # <<>> /\ lex # <<>>) =>
        /\ \A i, j \in 1..Len(hits) : i # j => hits[i].chunk_id # hits[j].chunk_id
        /\ \A i \in 1..Len(hits) : hits[i].score = RefScore(hits[i].chunk_id)
        /\ \A i \in 1..(Len(hits) - 1) : ~FracLess(hits[i].score, hits[i + 1].score)
        /\ HitIds \subseteq CandidateIds
        /\ Len(hits) = (IF Cardinality(CandidateIds) < search_k
                        THEN Cardinality(CandidateIds) ELSE search_k)
        /\ \A id \in CandidateIds \ HitIds :
              \A i \in 1..Len(hits) : ~FracLess(hits[i].score, RefScore(id))

\* C14 witness: three chunks in the union, one of them in both lists, k = 2,
\* and a chunk that only the lexical search found is returned first
C14_Witness ==
    /\ Searched
    /\ Cardinality(CandidateIds) = 3
    /\ \E id \in ChunkIds : InVec(id) /\ InLex(id)
    /\ search_k = 2
    /\ Len(hits) = 2
    /\ ~InVec(hits[1].chunk_id)

(***************************************************************************)
(* Claims about the multi-KB retrieval.                                    *)
(***************************************************************************)
Retrieved == retrieved # NotRetrieved

\* the allocations that have a budget
Budgeted == {i \in 1..Len(kb_allocations) : kb_allocations[i].top_k > 0}

\* the scores chunk id has in the groups
GroupScores(id) ==
    {groups[g][i].score : <<g, i>> \in
        {<<g, i>> \in (1..Len(groups)) \X (1..MaxChunks) :
            i <= Len(groups[g]) /\ groups[g][i].chunk_id = id}}

\* C15: with allocated KBs, there is one retrieval per allocation that has a
\* budget, each returning at most that allocation's top_k rows (in the order of
\* the allocations); the merged result has each chunk id at most once, with
\* the highest score the chunk has in any group, in non-increasing score
\* order, and at most rag_top_k rows.
C15_MergeByMax ==
    (Retrieved /\ Budgeted # {}) =>
        /\ Len(groups) = Cardinality(Budgeted)
        /\ \A g \in 1..Len(groups) :
              \E i \in Budgeted :
                 /\ Cardinality({h \in Budgeted : h <= i}) = g
                 /\ Len(groups[g]) <= kb_allocations[i].top_k
        /\ \A i, j \in 1..Len(retrieved) :
              i # j => retrieved[i].chunk_id # retrieved[j].chunk_id
        /\ \A i \in 1..Len(retrieved) :
              /\ retrieved[i].score \in GroupScores(retrieved[i].chunk_id)
              /\ \A sc \in GroupScores(retrieved[i].chunk_id) :
                    ~FracLess(retrieved[i].score, sc)
        /\ \A i \in 1..(Len(retrieved) - 1) :
              ~FracLess(retrieved[i].score, retrieved[i + 1].score)
        /\ Len(retrieved) <= rag_top_k

\* C15 witness: two groups hold the same chunk, the second with the higher
\* score, and more chunks were found than rag_top_k lets through
C15_Witness ==
    /\ Retrieved
    /\ Len(groups) = 2
    /\ \E i \in 1..Len(groups[1]), j \in 1..Len(groups[2]) :
         /\ groups[1][i].chunk_id = groups[2][j].chunk_id
         /\ FracLess(groups[1][i].score, groups[2][j].score)
         /\ \E h \in 1..Len(retrieved) : retrieved[h] = groups[2][j]
    /\ Len(retrieved) = rag_top_k
    /\ \E g \in 1..2 : \E i \in 1..Len(groups[g]) :
         \A h \in 1..Len(retrieved) : retrieved[h].chunk_id # groups[g][i].chunk_id

(***************************************************************************)
(* Claims about the citation sanitization.                                 *)
(***************************************************************************)
Cleaned == cleaned # NotCleaned

\* the text with every marker [n], of any number of digits, removed when n is
\* outside 1..ref and kept otherwise, and the spaces tidied as the code does
RefSanitize(t, ref) == Strip(CollapseSpaces(SubMarkers(t, ref, MaxText)))

\* C16: the sanitized text is the generated text with every marker [n] whose
\* number is outside 1..len(sources) removed and every other marker kept,
\* whatever the number of digits of n.
C16_MarkersSanitized == Cleaned => cleaned = RefSanitize(text, max_ref)

(***************************************************************************)
(* Claims about the chat requests.                                         *)
(***************************************************************************)
Finished(r) == rpc[r] = "finished"

\* C17: a request, streaming or not, for which no chunk was retrieved answers
\* with the fixed not-found text and an empty source list, and has made no
\* call to the chat model.
C17_NotFoundWithoutChatCall ==
    \A r \in Requests :
        (Finished(r) /\ n_retrieved[r] = 0) =>
            /\ answer[r] = "not_found"
            /\ n_sources[r] = 0
            /\ chat_calls[r] = 0

\* a whole stream with c content deltas
WholeStream(c) == <<"role">> \o ContentFrames(c) \o <<"stop", "sources", "[DONE]">>

\* fs is the start of a whole stream
StreamPrefix(fs) ==
    \E c \in 0..Len(fs) : Len(fs) <= c + 4 /\ fs = SubSeq(WholeStream(c), 1, Len(fs))

FailsNow(r) == rpc[r] = "streaming" /\ answer'[r] = "upstream_error"

Holders == {r \in Requests : Holding(r)}
InFlight == {r \in Requests : in_call[r]}

\* the configured maximum, at least 1
GateLimit == IF max_concurrent >= 1 THEN max_concurrent ELSE 1

\* C20: at most GateLimit requests hold a slot, every chat-model call in
\* flight belongs to a request holding a slot, and a request gets past the
\* gate only when fewer than GateLimit requests hold a slot.
C20_GateBound ==
    /\ [](/\ Cardinality(Holders) <= GateLimit
          /\ InFlight \subseteq Holders
          /\ Cardinality(InFlight) <= GateLimit
          /\ sem_value = GateLimit - Cardinality(Holders))
    /\ [][\A r \in Requests :
            (rpc[r] = "acquire" /\ rpc'[r] \notin {"acquire", "cut"}) =>
                Cardinality(Holders) < GateLimit]_vars

\* C20 witness: every slot is taken by a request with a chat-model call in
\* flight, and another request waits at the gate
C20_Witness ==
    /\ Cardinality(Holders) = GateLimit
    /\ InFlight = Holders
    /\ \E r \in Requests : rpc[r] = "acquire"

Ended(r) == rpc[r] \in {"finished", "cut"}

\* C21: a request that stops holding a slot, on whatever exit path, frees
\* exactly one slot in that step and never holds or frees one again; when no
\* request is in progress every slot of the gate is free.
C21_ReleasedOnce ==
    /\ [][\A r \in Requests :
            /\ (Holding(r) /\ rpc'[r] \in {"acquire", "finished", "cut"}) =>
                  /\ sem_value' = sem_value + 1
                  /\ rpc'[r] # "acquire"
            /\ Ended(r) => (rpc'[r] = rpc[r] /\ sem_value' <= GateLimit)]_vars
    /\ []((\A r \in Requests : Ended(r)) => sem_value = GateLimit)

\* C21 witness: nothing is in progress any more; one stream was cut by the
\* client after it had sent content, the other request ran into the timeout
C21_Witness ==
    /\ \A r \in Requests : Ended(r)
    /\ \E r \in Requests : rpc[r] = "cut" /\ Len(frames[r]) >= 2
    /\ \E r \in Requests : answer[r] = "http_504"
    /\ sem_value = GateLimit

(***************************************************************************)
(* Claims about crawling and indexing.                                     *)
(***************************************************************************)
\* the ordinals and source contents of the committed chunk rows of a page
StoredChunks(u) == {<<r.chunk_index, r.src>> : r \in {x \in chunks : x.page_id = u}}

\* the ordinals and source contents one chunking pass over content c gives
ChunkingOf(c) == {<<i, c>> : i \in 0..(NumChunks(c) - 1)}

\* C22: in every committed state a page whose indexed_content_hash equals
\* its content_hash has, as its stored chunk set, the chunking of its stored
\* content.
C22_EqualHashesMeanFreshChunks ==
    \A u \in Urls :
        (pages[u].exists /\ pages[u].indexed_content_hash = pages[u].content_hash) =>
            StoredChunks(u) = ChunkingOf(pages[u].content_markdown)

\* the committed chunk rows of a page
CommittedRows(u) == {r \in chunks : r.page_id = u}

\* rows are what one chunking pass over some content of page u inserted
OnePass(u, rows) ==
    \E c \in Docs, first \in 1..next_chunk_id : rows = PassRows(u, c, first)

\* C23: what a reader gets for a page is the page's whole committed chunk
\* set, also while an index run has deleted or inserted rows of the page and
\* whether that run commits or fails; the committed set of a page is always
\* the whole output of one chunking pass, ordinals 0..m-1, and changes only
\* when an index run commits, in one step, to the whole output of its pass.
C23_RebuildAllOrNothing ==
    /\ [][/\ view' # view => view'.rows = CommittedRows(view'.page_id)
          /\ \A u \in Urls :
                CommittedRows(u)' # CommittedRows(u) =>
                    /\ index_pc = "running" /\ index_pc' = "idle"
                    /\ index_result'.outcome = "committed"
                    /\ u \in index_result'.pages
                    /\ CommittedRows(u)' \cap CommittedRows(u) = {}]_vars
    /\ [](/\ OnePass(view.page_id, view.rows)
          /\ \A u \in Urls : OnePass(u, CommittedRows(u)))

\* C23 witness: a reader got the full earlier chunk set of a page while an
\* index run had deleted the page's rows in its session, and that run failed
C23_Witness ==
    /\ view.rebuilding = view.page_id
    /\ view.rows # {}
    /\ view.rows = CommittedRows(view.page_id)
    /\ index_result.outcome = "raised"

\* the index run is about to handle a page it loaded with equal hashes
AtUpToDatePage ==
    /\ index_pc = "running"
    /\ rebuilding = 0
    /\ loaded # <<>>
    /\ Head(loaded).indexed_content_hash = Head(loaded).content_hash

\* C24: an incremental index run that comes to a page whose
\* indexed_content_hash equals its content_hash goes on without deleting or
\* inserting chunk rows of the page and without counting it as rebuilt.
C24_UpToDatePagesUntouched ==
    [][(AtUpToDatePage /\ index_mode = "incremental") =>
          /\ rebuilding' = 0
          /\ tx_deleted' = tx_deleted
          /\ tx_rows' = tx_rows
          /\ index_result'.pages = index_result.pages]_vars

\* the crawl run fetches url u in this step and the fetch succeeds
FetchedOk(u) ==
    /\ crawl_pc = "running"
    /\ u \notin crawl_visited
    /\ u \in crawl_visited'
    /\ counts'.succeeded = counts.succeeded + 1

\* the content whose hash is h
ContentOf(h) == CHOOSE d \in Docs : sha256_text(d) = h

\* an incremental run fetches u with content that hashes to the stored hash
Recrawled(u) ==
    /\ FetchedOk(u)
    /\ crawl_mode = "incremental"
    /\ PageInCrawl(u).content_hash # 0
    /\ PageInCrawl(u)'.content_hash = PageInCrawl(u).content_hash

\* C25: an incremental crawl that fetches a page whose content hashes to the
\* stored content_hash leaves title, markdown, both hashes and every chunk
\* row as they were, sets the HTTP status and the last-crawled time, counts
\* the page as succeeded and not as failed, and runs the link discovery on
\* the page's links as for any fetched page.
C25_SameContentOnlyTouched ==
    [][\A u \in Urls :
          Recrawled(u) =>
             /\ PageInCrawl(u)' = [PageInCrawl(u) EXCEPT !.http_status = 200,
                                                         !.last_crawled_at = crawl_quota]
             /\ chunks' = chunks
             /\ pages' = pages
             /\ counts' = [counts EXCEPT !.fetched = @ + 1, !.succeeded = @ + 1]
             /\ <<crawl_seen', frontier'>> =
                   discover_links(LinksOf(u, ContentOf(PageInCrawl(u).content_hash)),
                                  crawl_seen, Tail(frontier), max_pages)]_vars

\* C25 witness: an incremental run has touched page 1, stored and indexed
\* with chunks by an earlier run and last crawled before this run, and has
\* put the page it links to on the frontier
C25_Witness ==
    /\ crawl_pc = "running"
    /\ crawl_mode = "incremental"
    /\ crawl_visited = {1}
    /\ counts.succeeded = 1
    /\ pages[1].content_hash # 0
    /\ pages[1].last_crawled_at < crawl_quota
    /\ CommittedRows(1) # {}
    /\ crawl_writes[1].written
    /\ crawl_writes[1].row = [pages[1] EXCEPT !.http_status = 200,
                                                !.last_crawled_at = crawl_quota]
    /\ frontier = <<2>>

(***************************************************************************)
(* Claims about the query-embedding cache.                                 *)
(***************************************************************************)
\* caller c leaves the second section under the lock in this step
Stored(c) ==
    /\ embed_pc[c] = "calling"
    /\ provider_calls' = provider_calls + 1
    /\ embed_ret'[c].vec = provider_calls'
    /\ max_size > 0

\* the keys that leave the cache when caller c stores its entry
Evicted(c) == (KeysIn(cache) \cup {embed_key[c]}) \ KeysIn(cache')

\* C26: the cache holds at most max_size entries, one per key; a store
\* removes entries only as far as the capacity is exceeded, and every entry
\* it removes was used (hit or stored) before every entry that stays.
C26_BoundedStrictLru ==
    /\ [](/\ Len(cache) <= max_size
          /\ Cardinality(KeysIn(cache)) = Len(cache))
    /\ [][\A c \in Callers :
            Stored(c) =>
               /\ embed_key[c] \in KeysIn(cache')
               /\ Cardinality(KeysIn(cache')) =
                     IF Cardinality(KeysIn(cache) \cup {embed_key[c]}) > max_size
                     THEN max_size
                     ELSE Cardinality(KeysIn(cache) \cup {embed_key[c]})
               /\ \A k \in Evicted(c), j \in KeysIn(cache') :
                     last_used'[k] < last_used'[j]]_vars

\* C26 witness: with a capacity of two and no expiry, the entry stored
\* first was hit after the second was stored, so the third store evicted
\* the second entry and kept the first
C26_Witness ==
    /\ max_size = 2
    /\ ttl_s = 0
    /\ Len(cache) = 2
    /\ cache[1].vec = 1
    /\ cache[2].vec = 3
    /\ \E k \in Keys \ KeysIn(cache) : last_used[k] > 0 /\ last_used[k] < last_used[cache[1].key]

\* caller c leaves the first section under the lock in this step
LookedUp(c) ==
    /\ lookups' = lookups + 1
    /\ embed_ret'[c].call = lookups'
    /\ max_size > 0

\* C27: with ttl_s > 0, a lookup of a key whose resident entry is older
\* than ttl_s returns nothing from the cache, removes the entry and goes on
\* to call the provider, whose vector is returned and stored as the key's
\* entry with the time of the lookup; a lookup of a key whose entry is
\* within ttl_s returns the entry's vector and makes no provider call.
C27_TtlExpiry ==
    [][\A c \in Callers :
         /\ (LookedUp(c) /\ ttl_s > 0 /\ embed_key'[c] \in KeysIn(cache)) =>
               IF cache_clock - EntryOf(cache, embed_key'[c]).ts > ttl_s
               THEN /\ embed_pc'[c] = "calling"
                    /\ embed_ret'[c].vec = 0
                    /\ embed_key'[c] \notin KeysIn(cache')
               ELSE /\ embed_pc'[c] = "idle"
                    /\ embed_ret'[c].vec = EntryOf(cache, embed_key'[c]).vec
                    /\ embed_key'[c] \in KeysIn(cache')
                    /\ provider_calls' = provider_calls
         /\ (Stored(c) /\ ttl_s > 0) =>
               /\ embed_pc'[c] = "idle"
               /\ EntryOf(cache', embed_key[c]) =
                     [key |-> embed_key[c], ts |-> embed_now[c], vec |-> provider_calls']]_vars

\* C27 witness: the vector of the first provider call was stored at time 0
\* and returned to caller 2 by a hit; caller 1 looked the key up again after
\* more than ttl_s and got the vector of a second provider call, which is
\* now the key's entry
C27_Witness ==
    /\ ttl_s > 0
    /\ max_size > 0
    /\ lookups = 3
    /\ embed_key[1] = embed_key[2]
    /\ embed_ret[2] = [call |-> 2, vec |-> 1]
    /\ embed_ret[1] = [call |-> 3, vec |-> 2]
    /\ embed_now[2] = 0
    /\ embed_now[1] > ttl_s
    /\ cache = <<[key |-> embed_key[1], ts |-> embed_now[1], vec |-> 2]>>

(***************************************************************************)
(* Claims about the crawl frontier and about failures of single pages.     *)
(***************************************************************************)
\* C28: a crawl run that has started returns; when it returns its frontier
\* is empty or it has discovered at least max_pages distinct urls; every
\* fetch is of a url not fetched before in the run, and the number of
\* fetches never exceeds max_pages.
C28_CrawlTerminates ==
    /\ (crawl_pc = "running") ~> (crawl_pc = "idle")
    /\ [][/\ (crawl_pc = "running" /\ crawl_pc' = "idle") =>
                /\ frontier = <<>> \/ Cardinality(crawl_seen) >= max_pages
                /\ frontier = <<>> \/ counts'.discovered >= max_pages
          /\ (crawl_pc = "running" /\ counts'.fetched # counts.fetched) =>
                /\ counts'.fetched = counts.fetched + 1
                /\ Head(frontier) \notin crawl_visited
                /\ crawl_visited' = crawl_visited \cup {Head(frontier)}]_vars
    /\ [](/\ counts.fetched <= max_pages
          /\ crawl_pc = "running" => counts.fetched = Cardinality(crawl_visited))

\* C28 witness: a run has returned with its budget of one page used up and
\* a second url discovered and not fetched
C28_Witness ==
    /\ crawl_pc = "idle"
    /\ crawl_quota > 0
    /\ max_pages = 1
    /\ counts.fetched = 1
    /\ counts.discovered = 2

\* C29: a crawl run and an index run end only by committing, whatever
\* happened to single pages: a crawl run commits the rows it wrote, the
\* failed fetches included, and an index run that stops running has
\* committed the pages it rebuilt.
C29_RunsSurvivePageFailures ==
    [][/\ (crawl_pc = "running" /\ crawl_pc' = "idle") =>
             \A u \in Urls : crawl_writes[u].written => pages'[u] = PageInCrawl(u)
       /\ (index_pc = "running" /\ index_pc' = "idle") =>
             /\ index_result'.outcome = "committed"
             /\ \A u \in index_result.pages :
                   pages'[u].indexed_content_hash = tx_indexed[u]]_vars

(***************************************************************************)
(* Claims about the context block.                                         *)
(***************************************************************************)
\* C30: the context block built from the ranked chunks is never longer than
\* max_chars characters.
C30_ContextWithinBudget ==
    context # NotBuilt => Len(context) <= ctx_max_chars

(***************************************************************************)
(* Claims about the completion of a run and the claim of the next job.     *)
(***************************************************************************)
\* steps of _process_job of worker w, recognised by its position
BeginStep(w) == pc[w] = "claimed" /\ pc'[w] = "exec"
FinishStep(w) == pc[w] = "finish" /\ pc'[w] = "poll"

\* the handler of worker w raised (err holds str(e), which may be empty)
Raised(w) == err[w] # NoErr

\* C31: the attempt count is committed to the progress metadata before the
\* handler starts; when the handler returns the job becomes succeeded; when it
\* raises the job returns to queued if the recorded attempts are fewer than
\* max_attempts (and max_attempts > 0) and becomes failed otherwise, and the
\* error text is stored in both cases.
C31_Completion ==
    [][\A w \in Workers :
        /\ BeginStep(w) =>
             attempts'[job_id[w]] = attempts[job_id[w]] + 1
        /\ FinishStep(w) =>
             LET j == job_id[w] IN
             IF Raised(w)
             THEN /\ status'[j] = (IF RetryAllowed(j) THEN "queued" ELSE "failed")
                  /\ err[w] # "" => error'[j] = <<err[w]>>
             ELSE status'[j] = "succeeded"]_vars

\* the columns of job j that a transaction can write
RowOf(j) == <<status[j], started_at[j], finished_at[j], error[j], attempts[j]>>

\* C32: the claim SELECT returns, among the queued jobs that no other
\* transaction has locked, one with the oldest timestamp, and nothing when
\* there is none; the commit of the same transaction sets that job to
\* running, stamps a fresh start time and clears its error; a claim that
\* found nothing returns no job id, and the claim changes no other job (the
\* rows of the stale pass of the same transaction aside).
C32_ClaimOldest ==
    [][\A w \in Workers :
        /\ ClaimSelectStep(w) =>
             LET free == {j \in DOMAIN status :
                            /\ status[j] = "queued"
                            /\ \A o \in Workers \ {w} : j \notin LockedBy(o)}
             IN /\ free = {} => txJob'[w] = None
                /\ free # {} =>
                     /\ txJob'[w] \in free
                     /\ \A j \in free : started_at[txJob'[w]] <= started_at[j]
                /\ \A j \in DOMAIN status : RowOf(j)' = RowOf(j)
        /\ CommitStep(w) =>
             /\ job_id'[w] = txJob[w]
             /\ txJob[w] # None =>
                  /\ status[txJob[w]] = "queued"
                  /\ status'[txJob[w]] = "running"
                  /\ started_at'[txJob[w]] = now
                  /\ error'[txJob[w]] = <<>>
             /\ \A j \in DOMAIN status :
                  (j # txJob[w] /\ j \notin txStale[w]) => RowOf(j)' = RowOf(j)]_vars

\* C32 witness: a claim holds the oldest queued job while a newer one is queued
C32_Witness ==
    \E w \in Workers :
       /\ pc[w] = "tx_claim"
       /\ txJob[w] # None
       /\ \E j \in DOMAIN status :
             /\ j # txJob[w]
             /\ status[j] = "queued"
             /\ started_at[j] > started_at[txJob[w]]

(***************************************************************************)
(* Claims about failed fetches and the pages an index run reads.           *)
(***************************************************************************)
\* the http_status of a fetch that failed: an HTTP error status, or the 0
\* recorded for an exception
FailureStatus(h) == h >= 400 \/ h = 0

\* the crawl run counts the fetch of u as failed in this step
FetchFailed(u) ==
    /\ crawl_pc = "running"
    /\ u \notin crawl_visited
    /\ u \in crawl_visited'
    /\ counts'.failed = counts.failed + 1

\* C33: a fetch that ends with an HTTP status >= 400 or with an exception
\* writes a Page row for the url with a failure status, counts the url as
\* failed and not as succeeded, follows none of its links, and the run goes
\* on with the rest of the frontier; the row is there when the run returns.
C33_FailedFetchRecorded ==
    [][/\ \A u \in Urls :
            FetchFailed(u) =>
               /\ crawl_writes'[u].written
               /\ crawl_writes'[u].row.exists
               /\ FailureStatus(crawl_writes'[u].row.http_status)
               /\ counts' = [counts EXCEPT !.fetched = @ + 1, !.failed = @ + 1]
               /\ crawl_seen' = crawl_seen
               /\ frontier' = Tail(frontier)
               /\ crawl_pc' = "running"
       /\ (crawl_pc = "running" /\ crawl_pc' = "idle") =>
            \A u \in Urls :
               (crawl_writes[u].written /\ FailureStatus(crawl_writes[u].row.http_status)) =>
                  /\ pages'[u].exists
                  /\ pages'[u].http_status = crawl_writes[u].row.http_status
                  /\ pages'[u].last_crawled_at = crawl_quota]_vars

\* C33 witness: a run has returned with one url failed with HTTP 404 and
\* recorded, and the other url fetched and stored
C33_Witness ==
    /\ crawl_pc = "idle"
    /\ counts.failed = 1
    /\ counts.succeeded = 1
    /\ pages[1].exists
    /\ pages[1].http_status = 404
    /\ pages[1].last_crawled_at = crawl_quota
    /\ pages[2].exists
    /\ pages[2].http_status = 200
    /\ pages[2].last_crawled_at = crawl_quota

\* the index run reads its pages in this step
IndexSelectStep == index_pc = "idle" /\ index_pc' = "running"

\* C34: an index run processes only pages whose last fetch did not fail: no
\* page that the crawler recorded with a failure status (an HTTP error
\* status, or the status of a fetch exception) is among the pages the run
\* loads to rebuild and mark indexed.
C34_FailedPagesNotIndexed ==
    [][IndexSelectStep =>
          \A i \in DOMAIN loaded' :
             ~FailureStatus(pages[loaded'[i].url].http_status)]_vars

(***************************************************************************)
(* Claims about the mutexes of the embeddings providers.                   *)
(***************************************************************************)
\* caller c has missed the cache for its key and has not stored yet
Missed(c) == max_size > 0 /\ embed_pc[c] = "calling"

\* C35: the check and the insert of the query-embedding cache are one
\* critical section: between the lookup of a caller that misses for a key
\* and the insert of that caller for the key, no other caller looks the key
\* up or inserts it.
C35_CheckThenInsertAtomic ==
    [][\A c \in Callers : \A o \in Callers \ {c} :
          Missed(c) =>
             /\ ~(LookedUp(o) /\ embed_key'[o] = embed_key[c])
             /\ ~(Stored(o) /\ embed_key[o] = embed_key[c])]_vars

\* caller c is inside the locked section of _get_inner
InLock(c) == lazy_pc[c] \in {"locked", "building", "release"}

\* caller c enters the factory in this step
FactoryStep(c) == lazy_pc[c] # "building" /\ lazy_pc'[c] = "building"

\* C36: the lazy initialization happens once: at most one caller is inside
\* the locked section (the other first callers are waiting for the lock),
\* the factory is entered only while no provider was built and by the
\* holder of the lock alone, a built provider is never replaced and the
\* factory is never called after it, and every call that returned used that
\* one provider.
C36_InitOnce ==
    /\ [](/\ Cardinality({c \in LazyCallers : InLock(c)}) <= 1
          /\ \A c \in LazyCallers :
                /\ InLock(c) => lazy_lock = c
                /\ lazy_pc[c] = "building" =>
                     \A o \in LazyCallers \ {c} : lazy_pc[o] \in {"idle", "waiting"}
                /\ lazy_got[c] # None => lazy_got[c] = lazy_inner)
    /\ [][/\ \A c \in LazyCallers : FactoryStep(c) => lazy_inner = None
          /\ lazy_inner # None =>
                /\ lazy_inner' = lazy_inner
                /\ factory_calls' = factory_calls]_vars

\* C36 witness: three first calls overlapped; caller 1 built the provider
\* with the only factory call and returned it, caller 2 then got the lock
\* and found the provider set, caller 3 is still waiting for the lock
C36_Witness ==
    /\ factory_calls = 1
    /\ lazy_inner = 1
    /\ lazy_pc = <<"idle", "release", "waiting">>
    /\ lazy_got = <<1, None, None>>
    /\ lazy_lock = 2

(***************************************************************************)
(* Claims about the finish timestamp and about the weights of the          *)
(* allocator.                                                              *)
(***************************************************************************)
\* C37: in every state of the job queue a job has a finish timestamp if and
\* only if its status is succeeded, failed or cancelled; a queued or running
\* job carries none.
C37_FinishedIffTerminal ==
    \A j \in DOMAIN status :
       status[j] # "absent" => (finished_at[j] # None <=> status[j] \in Terminal)

\* C38: the allocation is monotone in the weight: for k >= 1, of two kept
\* bindings the one with the strictly larger weight (after clamping) is
\* allocated at least as much as the other, a binding without an allocation
\* counting as 0.
C38_MonotoneInWeight ==
    (Called /\ total_k >= 1) =>
        \A i, j \in KeptIdx :
           WeightOf(i) > WeightOf(j) => TopKOf(i) >= TopKOf(j)

\* C38 witness: the budget covers every kept binding, and a binding that is
\* behind another by priority has the larger weight and the larger allocation
C38_Witness ==
    /\ Called
    /\ total_k > NKept
    /\ \E i, j \in KeptIdx :
         /\ WeightOf(i) > WeightOf(j)
         /\ WeightOf(j) > 0
         /\ bindings[j].priority < bindings[i].priority
         /\ TopKOf(i) > TopKOf(j)
         /\ TopKOf(j) > 1

(***************************************************************************)
(* Claims about the stored content hash.                                   *)
(***************************************************************************)
\* C39: after any crawl run, every page whose last fetch succeeded has a
\* content_hash that is the hash of its stored content_markdown.
C39_HashOfStoredContent ==
    \A u \in Urls :
       (pages[u].exists /\ ~FailureStatus(pages[u].http_status)) =>
          pages[u].content_hash = sha256_text(pages[u].content_markdown)
====
